---- MODULE Spec2Model ----
(***************************************************************************)
(* GitRecombo: the discovery and ranking pipeline of discover.py.          *)
(*                                                                         *)
(* Numbers are fixed point.  A signal (novelty, health, relevance,         *)
(* author_rep, diversity) of value x is the integer x * One; a weight of   *)
(* value w is the integer w * WOne; a combined score s is the integer      *)
(* s * One * WOne.  One is divisible by 4 (health counts quarters) and by  *)
(* 1..5 (the mean over at most five selected vectors), so every value the  *)
(* model computes is exact.  Time is in whole seconds.                     *)
(***************************************************************************)
EXTENDS Integers, Sequences, FiniteSets, TLC

One == 4 * 15
WOne == 4 * 5

\* ---------------------------------------------------------------- bounds
MaxResults == 3
NumNames == 2
MaxProbe == 7
MaxProbeH == 2
MaxRunRepos == 2
MaxRetry == 3
MaxRequests == 9
MaxCacheOps == 3
MaxTopics == 2
MaxTextLen == 5
MaxCalls == 5
MaxDays == 8
MaxLicensed == 4

\* ------------------------------------------------------ program constants
TargetCount == 6
FallbackMin == 3
FallbackTake == 3
ProbeLimitDefault == 24

DefaultLicenses == {"MIT", "Apache-2.0", "BSD-3-Clause"}
\* w_novelty 0.40, w_health 0.25, w_relevance 0.20, w_author 0.05, w_diversity 0.10
DefaultWeights ==
    [novelty |-> 8, health |-> 5, relevance |-> 4, author |-> 1, diversity |-> 2]

None == "None"

VARIABLES
    \* inputs of one discover run
    params,         \* the parameter bag
    results,        \* results[q]: what search_repos returns for the q-th query
    repoInfo,       \* per full_name: what the deep probes find on the platform
    goalVec,        \* the embedding the provider returns for the goal
    encShort,       \* how many vectors the provider returns short of len(texts)
    fault,          \* the request of the run whose gh_get call fails, or None
    \* state of discover
    pc, qi, agg, candidates, nProbe, idx, vecs, goal_vec,
    pool, selected, selected_vecs, sources,
    err,            \* the exception discover ended with, or None
    \* history
    returned,       \* every instance returned so far, in order
    iterLog,        \* the diversity bonuses of the latest greedy iteration
    picks,          \* the greedy picks, in pick order (positions in candidates)
    hit,            \* how the failing request failed, once it has been issued
    \* the API client
    now,            \* time.time(), in clock ticks
    planner,        \* the global SearchPlanner: one RateLimitState per endpoint class
    gh,             \* the gh_get call in progress
    sent,           \* history: the requests of the call and their responses
    sleeps,         \* history: the time.sleep calls of the call
    \* the other components
    ps,             \* a session of wait_if_needed / record_request calls on the planner
    cache,          \* the tables of the RepoCache database
    cres,           \* history: the latest cache read and what it returned
    pure            \* the call of a pure function: its arguments and its result

inputVars == <<params, results, repoInfo, goalVec, encShort, fault>>
discVars == <<pc, qi, agg, candidates, nProbe, idx, vecs, goal_vec,
              pool, selected, selected_vecs, sources, err, returned, iterLog, picks, hit>>
ghVars == <<gh, sent, sleeps>>
compVars == <<ps, cache, cres, pure>>
otherVars == <<now, planner, ghVars, compVars>>
vars == <<inputVars, discVars, otherVars>>

\* ---------------------------------------------------------------- helpers
Max(a, b) == IF a >= b THEN a ELSE b
Min(a, b) == IF a <= b THEN a ELSE b

RECURSIVE SumSeq(_)
SumSeq(s) == IF s = <<>> THEN 0 ELSE Head(s) + SumSeq(Tail(s))

RemoveAt(s, i) == SubSeq(s, 1, i - 1) \o SubSeq(s, i + 1, Len(s))

\* ------------------------------------------------------------ aggregation
\* position of full_name key in the dict agg (insertion order), 0 if absent
KeyPos(a, key) ==
    IF \E i \in 1..Len(a) : a[i].full_name = key
    THEN CHOOSE i \in 1..Len(a) : a[i].full_name = key
    ELSE 0

\* the license gate letting a repository without a license through
LicensePassesUnlicensed(licenses, r) ==
    LET lic == r.license
    IN ~(licenses # {} /\ lic # "" /\ lic \notin licenses)

\* the license gate of line 342-343
LicensePasses(licenses, r) ==
    LET lic == r.license
    IN ~(licenses # {} /\ (lic = "" \/ lic \notin licenses))

\* AggPut without the novelty comparison: the last instance returned wins
AggPutLastWins(a, r) ==
    LET p == KeyPos(a, r.full_name)
    IN IF p = 0 THEN Append(a, r) ELSE [a EXCEPT ![p] = r]

\* AggPut without the test of the key: every instance is a new entry
AggPutAppend(a, r) == Append(a, r)

\* agg[key] = r when key is new or r is strictly more novel (line 344-345);
\* a replaced key keeps its place in the dict
AggPut(a, r) ==
    LET p == KeyPos(a, r.full_name)
    IN IF p = 0 THEN Append(a, r)
       ELSE IF r.novelty_score > a[p].novelty_score
            THEN [a EXCEPT ![p] = r]
            ELSE a

\* the inner loop over one query's repos (line 339-345)
RECURSIVE AggFold(_, _, _)
AggFold(a, repos, licenses) ==
    IF repos = <<>> THEN a
    ELSE LET r == Head(repos)
         IN AggFold(IF LicensePasses(licenses, r) THEN AggPut(a, r) ELSE a,
                    Tail(repos), licenses)

\* sorted(..., key=novelty_score, reverse=True): stable, descending
RECURSIVE InsertDesc(_, _)
InsertDesc(s, r) ==
    IF s = <<>> THEN <<r>>
    ELSE IF Head(s).novelty_score >= r.novelty_score
         THEN <<Head(s)>> \o InsertDesc(Tail(s), r)
         ELSE <<r>> \o s

RECURSIVE SortDesc(_)
SortDesc(s) ==
    IF s = <<>> THEN <<>>
    ELSE InsertDesc(SortDesc(SubSeq(s, 1, Len(s) - 1)), s[Len(s)])

\* a candidate as discover keeps it: the search result plus the keys the later
\* stages add in place (absent keys read as their .get defaults)
Cand(r) ==
    [full_name |-> r.full_name, novelty_score |-> r.novelty_score,
     license |-> r.license, inst |-> r.inst,
     probed |-> FALSE, ci |-> FALSE, ts |-> FALSE, rel |-> FALSE, man |-> FALSE,
     health_score |-> 0, drop |-> FALSE, author_rep |-> 0,
     relevance |-> 0, score |-> 0]

RECURSIVE MapCand(_)
MapCand(s) == IF s = <<>> THEN <<>> ELSE <<Cand(Head(s))>> \o MapCand(Tail(s))

\* probe = candidates[:min(probe_limit, len(candidates))]; the probed
\* candidates are the same objects as the first nProbe candidates
Probe == SubSeq(candidates, 1, nProbe)

\* ------------------------------------------------------------------ health
BoolInt(b) == IF b THEN 1 ELSE 0

\* HealthScore without the require_tests gate
HealthScoreNoTestsGate(ci, ts, rel, man, require_ci, require_tests) ==
    LET health == (One \div 4) * BoolInt(ci) + (One \div 4) * BoolInt(ts)
                  + (One \div 4) * BoolInt(rel) + (One \div 4) * BoolInt(man)
    IN IF require_ci /\ ~ci THEN 0 ELSE health

\* line 365-367
HealthScore(ci, ts, rel, man, require_ci, require_tests) ==
    LET health == (One \div 4) * BoolInt(ci) + (One \div 4) * BoolInt(ts)
                  + (One \div 4) * BoolInt(rel) + (One \div 4) * BoolInt(man)
        h1 == IF require_ci /\ ~ci THEN 0 ELSE health
    IN IF require_tests /\ ~ts THEN 0 ELSE h1

\* line 369
DropFlag(health_score, min_health) == health_score < min_health

\* ------------------------------------------------------------------ cosine
ISqrt(n) == CHOOSE r \in 0..n : r * r <= n /\ (r + 1) * (r + 1) > n

\* sum(x*y for x, y in zip(a, b)): zip stops at the shorter vector
RECURSIVE Dot(_, _)
Dot(a, b) ==
    IF a = <<>> \/ b = <<>> THEN 0 ELSE Head(a) * Head(b) + Dot(Tail(a), Tail(b))

\* cosine without the test of the lengths
cosine_zip(a, b) ==
    IF a = <<>> \/ b = <<>> THEN 0
    ELSE LET na2 == Dot(a, a)
             nb2 == Dot(b, b)
         IN IF na2 = 0 \/ nb2 = 0 THEN 0
            ELSE (One * Dot(a, b)) \div ISqrt(na2 * nb2)

\* line 397-403; the vectors of the model have integer norms, so the
\* quotient is exact
cosine(a, b) ==
    IF a = <<>> \/ b = <<>> \/ Len(a) # Len(b) THEN 0
    ELSE LET na2 == Dot(a, a)
             nb2 == Dot(b, b)
         IN IF na2 = 0 \/ nb2 = 0 THEN 0
            ELSE (One * Dot(a, b)) \div ISqrt(na2 * nb2)

\* --------------------------------------------------------------- selection
\* line 415-420
score_item(it, diversity_bonus, weights) ==
    weights.novelty * it.novelty_score + weights.health * it.health_score
    + weights.relevance * it.relevance + weights.author * it.author_rep
    + weights.diversity * diversity_bonus

RECURSIVE Sims(_, _)
Sims(v, svecs) ==
    IF svecs = <<>> THEN <<>> ELSE <<cosine(v, Head(svecs))>> \o Sims(v, Tail(svecs))

\* DiversityBonus giving full credit to every candidate without an embedding
DiversityBonusNoEmbFull(cand, vcs, svecs) ==
    IF svecs # <<>> /\ cand.full_name \in DOMAIN vcs
    THEN LET sims == Sims(vcs[cand.full_name], svecs)
             avg_sim == SumSeq(sims) \div Len(sims)
         IN Max(0, One - avg_sim)
    ELSE One

\* line 425-433: the diversity bonus of candidate cand in one iteration
DiversityBonus(cand, vcs, svecs) ==
    IF svecs # <<>> /\ cand.full_name \in DOMAIN vcs
    THEN LET sims == Sims(vcs[cand.full_name], svecs)
             avg_sim == SumSeq(sims) \div Len(sims)
         IN Max(0, One - avg_sim)
    ELSE IF svecs = <<>> THEN One
         ELSE 0

\* best_s starts at -1 (line 423)
BestSentinel == -(One * WOne)

\* ScanBest replacing best also on an equal score: the last maximum wins
RECURSIVE ScanBestLast(_, _, _, _)
ScanBestLast(scores, i, best, best_s) ==
    IF i > Len(scores) THEN best
    ELSE IF scores[i] >= best_s
         THEN ScanBestLast(scores, i + 1, i, scores[i])
         ELSE ScanBestLast(scores, i + 1, best, best_s)

\* line 423-437: scan the pool in order; a candidate replaces best only when
\* its score is strictly greater.  scores[i] is the score of pool[i]; the
\* result is the position in the pool of best, 0 for None.
RECURSIVE ScanBest(_, _, _, _)
ScanBest(scores, i, best, best_s) ==
    IF i > Len(scores) THEN best
    ELSE IF scores[i] > best_s
         THEN ScanBest(scores, i + 1, i, scores[i])
         ELSE ScanBest(scores, i + 1, best, best_s)

\* ------------------------------------------------------ SearchPlanner
\* the clock counts half seconds
Sec == 1 + 1

SafetyMargin == 3
PlannerBuffer == 1 * Sec
WindowLen == 60 * Sec
MinRequestInterval == (5 * Sec) \div 2
SearchRpm == 28
CodeSearchRpm == 8
RestRpm == 5000

EndpointTypes == {"search", "code_search", "rest"}

RateLimitState ==
    [limit |-> 0, remaining |-> 0, reset_time |-> 0, last_request_time |-> 0,
     requests_this_window |-> 0, window_start |-> 0]

\* SearchPlanner() constructed at time t
SearchPlanner(t) ==
    [search |-> [RateLimitState EXCEPT !.window_start = t],
     code_search |-> [RateLimitState EXCEPT !.window_start = t],
     rest |-> RateLimitState]

RpmLimit(endpoint_type) ==
    IF endpoint_type = "search" THEN SearchRpm
    ELSE IF endpoint_type = "code_search" THEN CodeSearchRpm
    ELSE RestRpm

update_from_headers(state, headers) ==
    IF headers.has_quota
    THEN [state EXCEPT !.limit = headers.limit, !.remaining = headers.remaining,
                       !.reset_time = headers.reset]
    ELSE state

\* should_wait taking a state without a reported limit as not limited
should_wait_reported(state, t) ==
    IF state.limit > 0 /\ state.remaining <= SafetyMargin
    THEN [wait |-> TRUE, wait_time |-> Max(0, state.reset_time - t)]
    ELSE [wait |-> FALSE, wait_time |-> 0]

\* line 44-49
should_wait(state, t) ==
    IF state.remaining <= SafetyMargin
    THEN [wait |-> TRUE, wait_time |-> Max(0, state.reset_time - t)]
    ELSE [wait |-> FALSE, wait_time |-> 0]

\* MinInterval without the minimum spacing
MinIntervalNone(state, t) == [state |-> state, slept |-> 0, ret |-> 0]

\* line 109-116 of wait_if_needed
MinInterval(state, t) ==
    LET since_last == t - state.last_request_time
    IN IF since_last < MinRequestInterval
       THEN [state |-> state, slept |-> MinRequestInterval - since_last,
             ret |-> MinRequestInterval - since_last]
       ELSE [state |-> state, slept |-> 0, ret |-> 0]

\* the state the call leaves and the time it sleeps, when called at time t
wait_if_needed(state, rpm_limit, t) ==
    IF should_wait(state, t).wait
    THEN [state |-> state, slept |-> should_wait(state, t).wait_time + PlannerBuffer,
          ret |-> should_wait(state, t).wait_time + PlannerBuffer]
    ELSE LET window_duration == t - state.window_start
         IN IF window_duration >= WindowLen
            THEN MinInterval([state EXCEPT !.requests_this_window = 0,
                                           !.window_start = t], t)
            ELSE IF state.requests_this_window >= rpm_limit
            THEN LET wait_time == WindowLen - window_duration + 1 * Sec
                 IN [state |-> [state EXCEPT !.requests_this_window = 0,
                                             !.window_start = t + wait_time],
                     slept |-> wait_time, ret |-> wait_time]
            ELSE MinInterval(state, t)

record_request(state, t, headers) ==
    update_from_headers([state EXCEPT !.last_request_time = t,
                                      !.requests_this_window = @ + 1], headers)

\* ------------------------------------------------------------- gh_get
RetryFloor == 60 * Sec
RetryBuffer == 2 * Sec
RemainingDefault == 1000
CriticalRemaining == 2

NoResp ==
    [status |-> 0, rate_limit_text |-> FALSE, has_quota |-> FALSE, limit |-> 0,
     remaining |-> 0, reset |-> 0, body |-> 0]

\* line 120-121: the quota headers as gh_get reads them
HdrRemaining(r) == IF r.has_quota THEN r.remaining ELSE RemainingDefault
HdrReset(r) == IF r.has_quota THEN r.reset ELSE 0

\* RateLimited retrying every response whose body mentions the rate limit
RateLimitedAnyStatus(r) == r.rate_limit_text

\* line 128
RateLimited(r) == r.status = 403 /\ r.rate_limit_text

\* RetryWait without the floor
RetryWaitNoFloor(reset_time, t) == Max(reset_time - t, 0) + RetryBuffer

\* line 130-132: what gh_get sleeps before the next attempt
RetryWait(reset_time, t) == Max(reset_time - t, RetryFloor) + RetryBuffer

\* line 137-141: the preventive sleep
PreventiveWait(r, t) ==
    IF HdrRemaining(r) <= CriticalRemaining /\ HdrReset(r) > 0 /\ HdrReset(r) - t > 0
    THEN HdrReset(r) - t + RetryBuffer
    ELSE 0

Slept(by, dur, t) == IF dur > 0 THEN <<[by |-> by, dur |-> dur, at |-> t]>> ELSE <<>>

\* line 78-81: the top of the loop body
GhWait ==
    /\ gh.pc = "wait"
    /\ gh.attempt < gh.retry
    /\ LET w == wait_if_needed(planner[gh.endpoint_type], RpmLimit(gh.endpoint_type), now)
       IN /\ planner' = [planner EXCEPT ![gh.endpoint_type] = w.state]
          /\ now' = now + w.slept
          /\ sleeps' = sleeps \o Slept("planner", w.slept, now)
    /\ gh' = [gh EXCEPT !.pc = "request"]
    /\ UNCHANGED sent
    /\ UNCHANGED <<inputVars, discVars, compVars>>

\* line 146: the loop ran out without returning or raising
GhExhausted ==
    /\ gh.pc = "wait"
    /\ gh.attempt >= gh.retry
    /\ gh' = [gh EXCEPT !.pc = "raised", !.error = "RequestFailed"]
    /\ UNCHANGED <<now, planner, sent, sleeps>>
    /\ UNCHANGED <<inputVars, discVars, compVars>>
\* what the platform may answer to the request issued at time t: a status, a
\* body that mentions the rate limit or not, and quota headers, absent or
\* advertising a reset before or after the floor of the retry sleep
Statuses == {<<200, FALSE>>, <<403, TRUE>>, <<403, FALSE>>, <<404, FALSE>>, <<429, TRUE>>}
Quotas(t) ==
    {[has_quota |-> FALSE, limit |-> 0, remaining |-> 0, reset |-> 0],
     [has_quota |-> TRUE, limit |-> 30, remaining |-> 0,
      reset |-> (t \div Sec + 30) * Sec],
     [has_quota |-> TRUE, limit |-> 30, remaining |-> 0,
      reset |-> (t \div Sec + 90) * Sec],
     [has_quota |-> TRUE, limit |-> 30, remaining |-> 20,
      reset |-> (t \div Sec + 90) * Sec]}
Responses(t, id) ==
    {[status |-> st[1], rate_limit_text |-> st[2], has_quota |-> h.has_quota,
      limit |-> h.limit, remaining |-> h.remaining, reset |-> h.reset, body |-> id] :
        st \in Statuses, h \in Quotas(t)}
Latencies == {0, 1 * Sec}

\* line 113-117: the request, answered after some latency, and its recording
GhRequest ==
    /\ gh.pc = "request"
    /\ \E r \in Responses(now, gh.attempt + 1), lat \in Latencies :
          /\ now' = now + lat
          /\ planner' = [planner EXCEPT ![gh.endpoint_type] =
                             record_request(planner[gh.endpoint_type], now', r)]
          /\ sent' = Append(sent, [at |-> now, done |-> now', resp |-> r])
          /\ gh' = [gh EXCEPT !.pc = "handle", !.r = r]
    /\ UNCHANGED sleeps
    /\ UNCHANGED <<inputVars, discVars, compVars>>

\* line 113: requests.get raises (connection error, timeout)
GhRequestRaises ==
    /\ gh.pc = "request"
    /\ gh' = [gh EXCEPT !.pc = "raised", !.error = "RequestException"]
    /\ UNCHANGED <<now, planner, sent, sleeps>>
    /\ UNCHANGED <<inputVars, discVars, compVars>>

\* line 120-144: what gh_get does with the response
GhHandle ==
    /\ gh.pc = "handle"
    /\ IF RateLimited(gh.r)
       THEN IF gh.attempt < gh.retry - 1
            THEN /\ sleeps' = sleeps \o Slept("retry", RetryWait(HdrReset(gh.r), now), now)
                 /\ now' = now + RetryWait(HdrReset(gh.r), now)
                 /\ gh' = [gh EXCEPT !.pc = "wait", !.attempt = @ + 1, !.r = NoResp]
            ELSE /\ gh' = [gh EXCEPT !.pc = "raised", !.error = "RateLimitExceeded"]
                 /\ UNCHANGED <<now, sleeps>>
       ELSE /\ sleeps' = sleeps \o Slept("preventive", PreventiveWait(gh.r, now), now)
            /\ now' = now + PreventiveWait(gh.r, now)
            /\ gh' = IF gh.r.status >= 400
                      THEN [gh EXCEPT !.pc = "raised", !.error = "HTTPError",
                                      !.status = gh.r.status]
                      ELSE [gh EXCEPT !.pc = "returned", !.value = gh.r.body]
    /\ UNCHANGED <<planner, sent>>
    /\ UNCHANGED <<inputVars, discVars, compVars>>

\* a URL is the sequence of the pieces of its path; Contains is Python's
\* "sub in url" on the concatenation of the pieces
Contains(url, sub) ==
    \E i \in 0..(Len(url) - Len(sub)) : SubSeq(url, i + 1, i + Len(sub)) = sub
SearchRepositories == <<"/search", "/repositories">>
SearchCode == <<"/search", "/code">>

\* an inference that knows no search endpoint
EndpointTypeRest(url) == "rest"

\* line 69-74
EndpointType(url) ==
    IF Contains(url, SearchRepositories) THEN "search"
    ELSE IF Contains(url, SearchCode) THEN "code_search"
    ELSE "rest"

NextGh == GhWait \/ GhExhausted \/ GhRequest \/ GhRequestRaises \/ GhHandle

\* no gh_get call in progress, the planner just constructed
StartTime == 1000 * Sec
GhIdle ==
    /\ now = StartTime
    /\ planner = SearchPlanner(StartTime)
    /\ gh = [pc |-> "idle", endpoint_type |-> "rest", retry |-> 0, attempt |-> 0,
             r |-> NoResp, value |-> 0, error |-> None, status |-> 0]
    /\ sent = <<>>
    /\ sleeps = <<>>

\* ------------------------------------------------- planner session
\* sequential use of the planner for one endpoint class: every request is
\* preceded by wait_if_needed and followed by record_request
PlQuotas(t) == {h \in Quotas(t) : h.has_quota => h.reset = (t \div Sec + 90) * Sec}

\* line 72-116: one wait_if_needed call, the sleep included
PlWait ==
    /\ ps.pc = "ready"
    /\ ps.n < MaxRequests
    /\ LET w == wait_if_needed(planner[ps.class], RpmLimit(ps.class), now)
       IN /\ planner' = [planner EXCEPT ![ps.class] = w.state]
          /\ now' = now + w.slept
          /\ ps' = [ps EXCEPT !.pc = "waited",
                               !.last = [called |-> TRUE, pre |-> planner[ps.class],
                                         t |-> now, slept |-> w.slept, ret |-> w.ret,
                                         post |-> w.state]]
    /\ UNCHANGED <<inputVars, discVars, ghVars, cache, cres, pure>>

\* line 118-125: the request is answered and recorded
PlRecord ==
    /\ ps.pc = "waited"
    /\ \E h \in PlQuotas(now) :
          planner' = [planner EXCEPT ![ps.class] = record_request(planner[ps.class], now, h)]
    /\ ps' = [ps EXCEPT !.pc = "ready", !.n = @ + 1]
    /\ UNCHANGED now
    /\ UNCHANGED <<inputVars, discVars, ghVars, cache, cres, pure>>

\* the caller spends a second between two requests, once in a session
PlThink ==
    /\ ps.pc = "ready"
    /\ ~ps.thought
    /\ ps.n < MaxRequests
    /\ now' = now + 1 * Sec
    /\ ps' = [ps EXCEPT !.thought = TRUE]
    /\ UNCHANGED planner
    /\ UNCHANGED <<inputVars, discVars, ghVars, cache, cres, pure>>

NextPlanner == PlWait \/ PlRecord \/ PlThink

\* ------------------------------------------------------- RepoCache
\* a table is a function from repo_full_name (the primary key) to its row
Hour == 3600 * Sec
DefaultModel == "thenlper/gte-small"
Tables == {"repositories", "readmes", "health_metrics", "embeddings"}
NoTables == [repositories |-> <<>>, readmes |-> <<>>, health_metrics |-> <<>>,
             embeddings |-> <<>>, processed_repos |-> <<>>]

\* dict.get(key, default)
Get(d, key, default) == IF key \in DOMAIN d THEN d[key] ELSE default

\* an upsert that keeps the columns cached_at and ttl_hours of a row it finds
InsertKeepClock(table, key, row) ==
    IF key \in DOMAIN table
    THEN (key :> [row EXCEPT !.cached_at = table[key].cached_at,
                             !.ttl_hours = table[key].ttl_hours]) @@ table
    ELSE (key :> row) @@ table

\* INSERT OR REPLACE: the row with the same primary key is deleted first
InsertOrReplace(table, key, row) == (key :> row) @@ table

\* a TTL check that already fails at the boundary
ExpiredAtBoundary(row, t) == t - row.cached_at >= row.ttl_hours * Hour

\* time.time() - cached_at > ttl_hours * 3600
Expired(row, t) == t - row.cached_at > row.ttl_hours * Hour

\* fetchone() and the TTL check shared by the four get methods; Value(row) is
\* what the method builds from a row it accepts
Fetch(table, key, t) ==
    IF key \notin DOMAIN table THEN [found |-> FALSE]
    ELSE IF Expired(table[key], t) THEN [found |-> FALSE]
    ELSE [found |-> TRUE, row |-> table[key]]

\* the arguments a session draws from (values that JSON keeps as they are)
CacheIds == {"a/x", "b/y"}
TtlHours == {0, 1}
RepoDicts(id) == {[full_name |-> id, stargazers_count |-> 5],
                  [full_name |-> id, language |-> "Rust"]}
Contents == {"# old", "# new"}
Metrics == {[has_ci_cd |-> TRUE, health_score |-> One \div 2], [has_tests |-> TRUE]}
Embeddings == {<<1, 0>>, <<0, 1>>}
Models == {DefaultModel, "text-embedding-3-small"}

\* the session's record of a write: for each identity the latest write, and
\* for each (identity, embedding model) the latest write
Logged(id, model, value, ttl) ==
    [cres EXCEPT !.op = "write", !.n = @ + 1, !.id = id,
                 !.last = (id :> [value |-> value, ttl_hours |-> ttl, t |-> now,
                                  model |-> model,
                                  nth |-> IF id \in DOMAIN cres.last
                                          THEN cres.last[id].nth + 1 ELSE 1]) @@ @,
                 !.bymodel = (<<id, model>> :> [value |-> value, ttl_hours |-> ttl,
                                                 t |-> now]) @@ @]

CacheFrame == UNCHANGED <<inputVars, discVars, ghVars, now, planner, ps, pure>>

\* line 146-172
cache_repo ==
    /\ cres.op # "none" /\ cres.ns = "repositories" /\ cres.n < MaxCacheOps
    /\ \E id \in CacheIds, ttl_hours \in TtlHours : \E repo \in RepoDicts(id) :
          /\ cache' = [cache EXCEPT !.repositories =
                 InsertOrReplace(@, repo.full_name,
                    [stars |-> Get(repo, "stargazers_count", 0),
                     language |-> Get(repo, "language", ""),
                     cached_at |-> now, ttl_hours |-> ttl_hours, raw_data |-> repo])]
          /\ cres' = Logged(id, "", repo, ttl_hours)
    /\ CacheFrame

\* line 174-184
cache_readme ==
    /\ cres.op # "none" /\ cres.ns = "readmes" /\ cres.n < MaxCacheOps
    /\ \E id \in CacheIds, ttl_hours \in TtlHours, content \in Contents :
          /\ cache' = [cache EXCEPT !.readmes =
                 InsertOrReplace(@, id, [content |-> content, cached_at |-> now,
                                         ttl_hours |-> ttl_hours])]
          /\ cres' = Logged(id, "", content, ttl_hours)
    /\ CacheFrame

\* the dict get_health_metrics returns for the metrics written
MetricsOut(metrics) ==
    [has_ci_cd |-> Get(metrics, "has_ci_cd", FALSE),
     has_tests |-> Get(metrics, "has_tests", FALSE),
     has_releases |-> Get(metrics, "has_releases", FALSE),
     has_manifest |-> Get(metrics, "has_manifest", FALSE),
     health_score |-> Get(metrics, "health_score", 0)]

\* line 186-206: booleans are stored in BOOLEAN (numeric) columns
cache_health_metrics ==
    /\ cres.op # "none" /\ cres.ns = "health_metrics" /\ cres.n < MaxCacheOps
    /\ \E id \in CacheIds, ttl_hours \in TtlHours, metrics \in Metrics :
          /\ cache' = [cache EXCEPT !.health_metrics =
                 InsertOrReplace(@, id,
                    [has_ci_cd |-> BoolInt(Get(metrics, "has_ci_cd", FALSE)),
                     has_tests |-> BoolInt(Get(metrics, "has_tests", FALSE)),
                     has_releases |-> BoolInt(Get(metrics, "has_releases", FALSE)),
                     has_manifest |-> BoolInt(Get(metrics, "has_manifest", FALSE)),
                     health_score |-> Get(metrics, "health_score", 0),
                     cached_at |-> now, ttl_hours |-> ttl_hours])]
          /\ cres' = Logged(id, "", MetricsOut(metrics), ttl_hours)
    /\ CacheFrame

\* line 233-247
cache_embedding ==
    /\ cres.op # "none" /\ cres.ns = "embeddings" /\ cres.n < MaxCacheOps
    /\ \E id \in CacheIds, ttl_hours \in TtlHours, embedding \in Embeddings,
          model \in Models :
          /\ cache' = [cache EXCEPT !.embeddings =
                 InsertOrReplace(@, id, [embedding_model |-> model,
                                         embedding |-> embedding, cached_at |-> now,
                                         ttl_hours |-> ttl_hours])]
          /\ cres' = Logged(id, model, embedding, ttl_hours)
    /\ CacheFrame

\* the result of a get: None or the value
Got(id, f, value) ==
    [cres EXCEPT !.op = "get", !.id = id, !.t = now, !.found = f.found,
                 !.value = IF f.found THEN value ELSE None]

\* line 249-269, check_ttl = True
get_repo ==
    /\ cres.op # "none" /\ cres.ns = "repositories"
    /\ \E id \in CacheIds :
          LET f == Fetch(cache.repositories, id, now)
          IN cres' = Got(id, f, IF f.found THEN f.row.raw_data ELSE None)
    /\ UNCHANGED cache
    /\ CacheFrame

\* line 271-291, check_ttl = True
get_readme ==
    /\ cres.op # "none" /\ cres.ns = "readmes"
    /\ \E id \in CacheIds :
          LET f == Fetch(cache.readmes, id, now)
          IN cres' = Got(id, f, IF f.found THEN f.row.content ELSE None)
    /\ UNCHANGED cache
    /\ CacheFrame

\* line 293-318, check_ttl = True
get_health_metrics ==
    /\ cres.op # "none" /\ cres.ns = "health_metrics"
    /\ \E id \in CacheIds :
          LET f == Fetch(cache.health_metrics, id, now)
          IN cres' = Got(id, f,
                IF f.found
                THEN [has_ci_cd |-> f.row.has_ci_cd # 0,
                      has_tests |-> f.row.has_tests # 0,
                      has_releases |-> f.row.has_releases # 0,
                      has_manifest |-> f.row.has_manifest # 0,
                      health_score |-> f.row.health_score]
                ELSE None)
    /\ UNCHANGED cache
    /\ CacheFrame

\* line 320-340, check_ttl = True: the model name is no argument
get_embedding ==
    /\ cres.op # "none" /\ cres.ns = "embeddings"
    /\ \E id \in CacheIds :
          LET f == Fetch(cache.embeddings, id, now)
          IN cres' = Got(id, f, IF f.found THEN f.row.embedding ELSE None)
    /\ UNCHANGED cache
    /\ CacheFrame

\* time passes between two cache calls: a second or an hour
CachePause ==
    /\ cres.op # "none" /\ cres.n < MaxCacheOps
    /\ \E d \in {1 * Sec, Hour} : now' = now + d
    /\ cres' = [cres EXCEPT !.op = "pause", !.n = @ + 1]
    /\ UNCHANGED <<inputVars, discVars, ghVars, planner, ps, pure, cache>>

\* line 343-352
mark_processed ==
    /\ cres.op # "none" /\ cres.ns = "processed_repos" /\ cres.n < MaxCacheOps
    /\ \E id \in CacheIds :
          /\ cache' = [cache EXCEPT !.processed_repos =
                 InsertOrReplace(@, id, [processed_at |-> now, info |-> None])]
          /\ cres' = Logged(id, "", TRUE, 0)
    /\ CacheFrame

\* line 354-359
is_processed ==
    /\ cres.op # "none" /\ cres.ns = "processed_repos"
    /\ \E id \in CacheIds :
          cres' = [cres EXCEPT !.op = "is_processed", !.id = id, !.t = now,
                               !.found = id \in DOMAIN cache.processed_repos,
                               !.value = id \in DOMAIN cache.processed_repos]
    /\ UNCHANGED cache
    /\ CacheFrame

\* line 511-525: the DELETE statements name the tables discovery_scores,
\* health_metrics, readmes, repositories and processed_repos; the call returns
\* True. The session's record of writes starts afresh.
clear_all ==
    /\ cres.op # "none" /\ cres.n < MaxCacheOps
    /\ cache' = [cache EXCEPT !.health_metrics = <<>>, !.readmes = <<>>,
                              !.repositories = <<>>, !.processed_repos = <<>>]
    /\ cres' = [cres EXCEPT !.op = "clear_all", !.n = @ + 1, !.cleared = TRUE,
                            !.last = <<>>, !.bymodel = <<>>]
    /\ CacheFrame

NextClear ==
    \/ cache_repo \/ cache_readme \/ cache_health_metrics \/ cache_embedding
    \/ get_repo \/ get_readme \/ get_health_metrics \/ get_embedding
    \/ mark_processed \/ is_processed \/ clear_all

NextCache ==
    \/ cache_repo \/ cache_readme \/ cache_health_metrics \/ cache_embedding
    \/ get_repo \/ get_readme \/ get_health_metrics \/ get_embedding
    \/ CachePause

\* ---------------------------------------------------- build_queries
\* a string is a sequence of pieces: " " is a blank, every other piece a run
\* of characters without blanks; a topic is a string or None
TopicLen == 3
Pieces == {" ", "mamba", "rust"}
Strings(n) == UNION {[1..k -> Pieces] : k \in 0..n}
Topics == {[is_none |-> TRUE, s |-> <<>>]} \cup
          {[is_none |-> FALSE, s |-> x] : x \in Strings(TopicLen)}

\* line 23-28
PRESETS ==
    [x \in {<<"vector-rust">>, <<"mamba">>, <<"gpu-kernel">>, <<"streaming">>} |->
       IF x = <<"vector-rust">> THEN " language:Rust topic:vector"
       ELSE IF x = <<"mamba">> THEN " language:Python topic:mamba"
       ELSE IF x = <<"gpu-kernel">> THEN " language:C++ topic:cuda"
       ELSE " language:TypeScript topic:webtransport"]

RECURSIVE LStrip(_)
LStrip(x) == IF x # <<>> /\ Head(x) = " " THEN LStrip(Tail(x)) ELSE x

RECURSIVE RStrip(_)
RStrip(x) == IF x # <<>> /\ x[Len(x)] = " " THEN RStrip(SubSeq(x, 1, Len(x) - 1)) ELSE x

\* str.strip()
Strip(x) == RStrip(LStrip(x))

\* line 272: (t or "").strip()
Stripped(topic) == IF topic.is_none THEN <<>> ELSE Strip(topic.s)

\* line 276-291: the query of a topic that is not blank
Query(t, explore_longtail, max_stars) ==
    LET topic_term == IF \E i \in 1..Len(t) : t[i] = " "
                      THEN <<"\"">> \o t \o <<"\"">> ELSE t
        base_core == IF t \in DOMAIN PRESETS
                     THEN <<"pushed:>", "date_cut", PRESETS[t]>>
                     ELSE <<"pushed:>", "date_cut", " ">> \o topic_term
                          \o <<" in:name,description,readme">>
        cap == IF max_stars # None THEN max_stars ELSE "20"
    IN IF explore_longtail
       THEN base_core \o <<" stars:<", cap,
                           " forks:<2 fork:false archived:false has:license">>
       ELSE base_core \o <<" has:license">>

\* build_queries without the test for a blank topic
RECURSIVE build_queries_all(_, _, _)
build_queries_all(topics, explore_longtail, max_stars) ==
    IF topics = <<>> THEN <<>>
    ELSE <<Query(Stripped(Head(topics)), explore_longtail, max_stars)>>
         \o build_queries_all(Tail(topics), explore_longtail, max_stars)

\* line 268-294
RECURSIVE build_queries(_, _, _)
build_queries(topics, explore_longtail, max_stars) ==
    IF topics = <<>> THEN <<>>
    ELSE LET t == Stripped(Head(topics))
             rest == build_queries(Tail(topics), explore_longtail, max_stars)
         IN IF t = <<>> THEN rest
            ELSE <<Query(t, explore_longtail, max_stars)>> \o rest

PureFrame == UNCHANGED <<inputVars, discVars, ghVars, now, planner, ps, cache, cres>>

\* one call of build_queries
BuildQueries ==
    /\ pure.fn = "build_queries" /\ pure.pc = "call"
    /\ pure' = [pure EXCEPT !.pc = "done",
                            !.out = build_queries(pure.topics, pure.explore_longtail,
                                                  pure.max_stars)]
    /\ PureFrame

NextQueries == BuildQueries

\* ---------------------------------------------------- novelty_score
\* scores in units of 1e-5, the three normalised signals in thousandths, a
\* number of days as a fraction n / d
NovOne == 100 * 1000
Micro == 1000 * 1000
Days(n, d) == [n |-> n, d |-> d]

\* a timestamp: unparsable, or its distance to now in days
BadDate == [valid |-> FALSE, delta |-> Days(0, 1)]
Date(n, d) == [valid |-> TRUE, delta |-> Days(n, d)]

\* line 33-38: at least 1e-6 days, 3650 days for an unparsable timestamp
days_since(dt) ==
    IF ~dt.valid THEN Days(3650, 1)
    ELSE IF dt.delta.n <= (dt.delta.d - 1) \div Micro THEN Days(1, Micro)
    ELSE dt.delta

\* math.tanh of x / 1000 in thousandths, to the table's resolution; a double
\* saturates at 1.0 from about 19
Tanh(x) ==
    IF x >= 19000 THEN 1000 ELSE IF x >= 3000 THEN 995 ELSE IF x >= 2000 THEN 964
    ELSE IF x >= 1500 THEN 905 ELSE IF x >= 1000 THEN 762 ELSE IF x >= 600 THEN 537
    ELSE IF x >= 300 THEN 291 ELSE IF x >= 100 THEN 100 ELSE x

\* line 46-48
NoveltyBase(repo) ==
    LET created_days == days_since(repo.created_at)
        pushed_days == days_since(repo.pushed_at)
        sv_norm == Tanh((repo.stargazers_count * created_days.d * 20) \div created_days.n)
        fr_norm == (1000 * pushed_days.d) \div (pushed_days.d + pushed_days.n)
    IN 55 * sv_norm + 40 * fr_norm + 5 * Tanh(repo.forks_count * 20)

\* line 44
ForkPenalty(repo) == IF repo.fork THEN NovOne \div 5 ELSE 0

\* novelty_score without the clamp
novelty_score_raw(repo) == NoveltyBase(repo) - ForkPenalty(repo)

\* line 40-49
novelty_score(repo) == Max(0, Min(NovOne, NoveltyBase(repo) - ForkPenalty(repo)))

\* the repositories scored
Counts == {0, 1, 30, 100}
Dates == {BadDate, Date(0 - 1, 1), Date(1, 1), Date(100, 1)}
Repos == [stargazers_count : Counts, forks_count : Counts, created_at : Dates,
          pushed_at : Dates, fork : BOOLEAN]

\* novelty_score of a repository and of the same repository as a non-fork
NoveltyScore ==
    /\ pure.fn = "novelty_score" /\ pure.pc = "call"
    /\ pure' = [pure EXCEPT !.pc = "done",
                            !.out = novelty_score(pure.repo),
                            !.unforked = novelty_score([pure.repo EXCEPT !.fork = FALSE])]
    /\ PureFrame

NextNovelty == NoveltyScore

\* ------------------------------------------------------------ cosine
\* vectors of 0 to 3 dimensions with integer norms
Vectors == {<<>>, <<0>>, <<1>>, <<0 - 1>>, <<0, 0>>, <<1, 0>>, <<0, 0 - 1>>, <<3, 4>>,
            <<4, 3>>, <<0, 0, 0>>, <<1, 0, 0>>, <<2, 2, 1>>, <<1, 2, 2>>}

\* one call of the cosine helper
Cosine ==
    /\ pure.fn = "cosine" /\ pure.pc = "call"
    /\ pure' = [pure EXCEPT !.pc = "done", !.out = cosine(pure.a, pure.b)]
    /\ PureFrame

NextCosine == Cosine

\* ----------------------------------------------- shard_query_by_time
\* a date is a day number; strftime('%Y-%m-%d') keeps the day of a datetime,
\* and timedelta(days=k) moves it by k days. A query is the base query and
\* the two dates of its created: range.
EstimatedResultsPerDay == 50
CeilDiv(a, b) == (a + b - 1) \div b
ShardQuery(base_query, start_date, end_date) ==
    [base |-> base_query, start |-> start_date, end |-> end_date]

\* line 142-170, today the day of datetime.now()
shard_query_by_time(base_query, days, max_results_per_shard, today) ==
    LET estimated_total == EstimatedResultsPerDay * days
        num_shards == CeilDiv(estimated_total, max_results_per_shard)
        days_per_shard == Max(1, days \div num_shards)
    IN IF estimated_total <= max_results_per_shard
       THEN <<ShardQuery(base_query, today - days, today)>>
       ELSE [k \in 1..num_shards |->
               LET shard_end == today - (k - 1) * days_per_shard
               IN ShardQuery(base_query,
                             IF k = num_shards THEN today - days
                             ELSE shard_end - days_per_shard,
                             shard_end)]

\* the look-back windows and shard sizes of the calls
Lookbacks == 1..MaxDays \cup {30, 90}
ShardSizes == {1, 10, 25, 50, 100, 200, 400, 800}
Todays == {20000, 20030}

\* one call of shard_query_by_time
ShardQueryByTime ==
    /\ pure.fn = "shard_query_by_time" /\ pure.pc = "call"
    /\ pure' = [pure EXCEPT !.pc = "done",
                            !.out = shard_query_by_time(pure.base_query, pure.days,
                                                        pure.max_results_per_shard,
                                                        pure.today)]
    /\ PureFrame

NextShard == ShardQueryByTime

\* -------------------------------------------------- extract_concepts
\* a text is a sequence of words separated by whitespace
TermCut == 40
Words == {"the", "42", "rust", "Rust,", "vector", "hyperparameter-optimization-framework"}
STOP == {"the"}
Digits == {"42"}

\* line 250: punctuation to blanks, lower case
Clean(w) == IF w = "Rust," THEN "rust" ELSE w

\* len(w) of a cleaned word
Chars(w) ==
    IF w = "the" THEN 3 ELSE IF w = "42" THEN 2 ELSE IF w = "rust" THEN 4
    ELSE IF w = "vector" THEN 6 ELSE 37

\* line 251
RECURSIVE Tokens(_)
Tokens(text) ==
    IF text = <<>> THEN <<>>
    ELSE LET t == Clean(Head(text))
         IN (IF t \notin STOP /\ t \notin Digits THEN <<t>> ELSE <<>>) \o Tokens(Tail(text))

\* line 255-258: the pairs counted (both members are outside STOP already)
PairsOf(tokens) == [i \in 1..(Len(tokens) - 1) |-> <<tokens[i], tokens[i + 1]>>]

\* Counter: the keys in order of first occurrence, and their counts
RECURSIVE Keys(_, _)
Keys(items, seen) ==
    IF items = <<>> THEN <<>>
    ELSE IF Head(items) \in seen THEN Keys(Tail(items), seen)
    ELSE <<Head(items)>> \o Keys(Tail(items), seen \cup {Head(items)})

CountOf(x, items) == Cardinality({i \in DOMAIN items : items[i] = x})

\* the weighted phrases with every phrase kept, whatever its count
PhrasesAll(tokens) ==
    LET bi == PairsOf(tokens)
        bk == Keys(bi, {})
        uk == Keys(tokens, {})
    IN [i \in 1..Len(bk) |-> [p |-> bk[i], w |-> 3 * CountOf(bk[i], bi)]]
       \o [i \in 1..Len(uk) |-> [p |-> <<uk[i]>>, w |-> 2 * CountOf(uk[i], tokens)]]

\* line 259-260: pairs seen twice weigh 1.5 times their count, words seen twice
\* their count (weights doubled); a phrase p is the sequence of its words
Phrases(tokens) ==
    LET bi == PairsOf(tokens)
        bk == SelectSeq(Keys(bi, {}), LAMBDA k : CountOf(k, bi) >= 2)
        uk == SelectSeq(Keys(tokens, {}), LAMBDA k : CountOf(k, tokens) >= 2)
    IN [i \in 1..Len(bk) |-> [p |-> bk[i], w |-> 3 * CountOf(bk[i], bi)]]
       \o [i \in 1..Len(uk) |-> [p |-> <<uk[i]>>, w |-> 2 * CountOf(uk[i], tokens)]]

\* line 261: list.sort is stable, reverse keeps the order of equal weights
RECURSIVE SortByWeight(_)
SortByWeight(ps_) ==
    IF ps_ = <<>> THEN <<>>
    ELSE LET top == CHOOSE i \in DOMAIN ps_ :
                       /\ \A j \in DOMAIN ps_ : ps_[j].w <= ps_[i].w
                       /\ \A j \in 1..(i - 1) : ps_[j].w < ps_[i].w
         IN <<ps_[top]>> \o SortByWeight(RemoveAt(ps_, top))

\* len(" ".join(p))
PhraseChars(p) == IF Len(p) = 1 THEN Chars(p[1]) ELSE Chars(p[1]) + 1 + Chars(p[2])

\* line 263-265: an output entry is a phrase and the characters kept of it
RECURSIVE Take(_, _, _)
Take(ps_, out, topk) ==
    IF ps_ = <<>> \/ Len(out) >= topk THEN out
    ELSE LET p == Head(ps_).p
             in_out == \E i \in DOMAIN out :
                          out[i].p = p /\ out[i].chars = PhraseChars(p)
         IN Take(Tail(ps_),
                 IF in_out THEN out
                 ELSE Append(out, [p |-> p, chars |-> Min(TermCut, PhraseChars(p))]),
                 topk)

\* line 249-266
extract_concepts(text, topk) == Take(SortByWeight(Phrases(Tokens(text))), <<>>, topk)

\* one call of extract_concepts
ExtractConcepts ==
    /\ pure.fn = "extract_concepts" /\ pure.pc = "call"
    /\ pure' = [pure EXCEPT !.pc = "done", !.out = extract_concepts(pure.text, pure.topk)]
    /\ PureFrame

NextConcepts == ExtractConcepts

\* ----------------------------------------------- the global instances
\* instances are numbered in order of construction; 0 is None. ps.planners[i]
\* is the state of SearchPlanner instance i.
\* a getter that constructs an instance on every call
create_always(global, count) == [instance |-> count + 1, count |-> count + 1]

\* line 53-56 and 60-63: construct on the first call only
get_or_create(global, count) ==
    IF global = 0 THEN [instance |-> count + 1, count |-> count + 1]
    ELSE [instance |-> global, count |-> count]

SingleFrame == UNCHANGED <<inputVars, discVars, ghVars, planner, cache, cres, pure>>

\* line 51-56
get_search_planner ==
    /\ ps.pc \in {"single", "got"} /\ ps.n < MaxCalls
    /\ LET g == get_or_create(ps.search_planner, Len(ps.planners))
       IN ps' = [ps EXCEPT !.pc = "got", !.n = @ + 1,
                          !.search_planner = g.instance,
                          !.planners = IF g.count > Len(@)
                                       THEN Append(@, SearchPlanner(now)) ELSE @,
                          !.got = Append(@, g.instance)]
    /\ UNCHANGED now
    /\ SingleFrame

\* line 58-63
get_repo_cache ==
    /\ ps.pc \in {"single", "got"} /\ ps.n < MaxCalls
    /\ LET g == get_or_create(ps.repo_cache, ps.caches)
       IN ps' = [ps EXCEPT !.n = @ + 1, !.repo_cache = g.instance,
                          !.caches = g.count, !.gotc = Append(@, g.instance)]
    /\ UNCHANGED now
    /\ SingleFrame

\* line 76-117: a gh_get call goes on, with the instance it was given, to
\* wait_if_needed, the request and record_request
SingleRequest ==
    /\ ps.pc = "got"
    /\ \E e \in {"search", "rest"}, h \in PlQuotas(now) :
          LET i == ps.got[Len(ps.got)]
              w == wait_if_needed(ps.planners[i][e], RpmLimit(e), now)
              after == record_request(w.state, now + w.slept, h)
          IN /\ now' = now + w.slept
             /\ ps' = [ps EXCEPT !.pc = "single",
                                 !.planners[i][e] = after,
                                 !.log = Append(@, [class |-> e,
                                                    consulted |-> ps.planners[i][e],
                                                    recorded |-> after])]
    /\ SingleFrame

NextSingle == get_search_planner \/ get_repo_cache \/ SingleRequest

\* no planner session, an empty cache, no pure call
CompIdle ==
    /\ ps = [pc |-> "idle"]
    /\ cache = [repositories |-> <<>>, readmes |-> <<>>, health_metrics |-> <<>>,
                embeddings |-> <<>>, processed_repos |-> <<>>]
    /\ cres = [op |-> "none"]
    /\ pure = [fn |-> "none"]

\* ------------------------------------------------- derived operations
\* what a gh_get call can end with besides the parsed body: raise_for_status's
\* HTTPError (line 143), the RuntimeError of line 134, an exception of
\* requests.get (line 113)
GhFailures == {"HTTPError", "RateLimitExceeded", "RequestException"}

\* the run without a failing request
NoFault == [q |-> 0, name |-> 0, op |-> "", kind |-> None]

\* the operations that wrap their gh_get call in try / except Exception
\* (line 181-186, 188-213, 215-220, 228-233, 240-247); search_repos,
\* search_code and, through it, has_tests and has_manifest do not
Catches(op) ==
    op \in {"get_topics", "get_readme_text", "has_ci", "has_release", "author_rep"}

\* the exception that leaves operation op when its gh_get call fails with kind
Propagated(op, kind) == IF Catches(op) THEN None ELSE kind

\* line 357-373: the requests the probes of one candidate issue, in order,
\* when none of them raises.  get_readme_text answers from the cache without a
\* request (line 194-197); the second search of has_tests is evaluated only
\* when the first one counted nothing (line 226).
ProbeOps(info, p) ==
    <<"get_topics">>
    \o (IF (p.embed_provider \/ p.goal) /\ ~info.readme_cached
        THEN <<"get_readme_text">> ELSE <<>>)
    \o <<"has_ci", "has_tests">>
    \o (IF info.tests_path THEN <<>> ELSE <<"has_tests_2">>)
    \o <<"has_release", "has_manifest">>
    \o (IF p.authorsig THEN <<"author_rep">> ELSE <<>>)

\* the operation a request belongs to
OpOf(req) == IF req = "has_tests_2" THEN "has_tests" ELSE req

\* ------------------------------------------------------------ discover
\* line 336-345: one pass of the loop over the queries, i.e. one search_repos
\* call and the inner loop over what it returned
Aggregate ==
    /\ pc = "aggregate"
    /\ qi <= Len(results)
    /\ IF fault.q = qi
       THEN /\ hit' = fault.kind
            /\ err' = Propagated("search_repos", fault.kind)
            /\ pc' = "raised"
            /\ UNCHANGED <<agg, returned, qi>>
       ELSE /\ agg' = AggFold(agg, results[qi], params.licenses)
            /\ returned' = returned \o results[qi]
            /\ qi' = qi + 1
            /\ UNCHANGED <<pc, err, hit>>
    /\ UNCHANGED <<candidates, nProbe, idx, vecs, goal_vec, pool, selected,
                   selected_vecs, sources, iterLog, picks>>
    /\ UNCHANGED <<inputVars, otherVars>>

\* line 347-349: once every query is done, sort and cut to the probe limit
SortTruncate ==
    /\ pc = "aggregate"
    /\ qi > Len(results)
    /\ candidates' = MapCand(SortDesc(agg))
    /\ nProbe' = Min(params.probe_limit, Len(agg))
    /\ idx' = 1
    /\ pc' = "probe"
    /\ UNCHANGED <<qi, agg, vecs, goal_vec, pool, selected, selected_vecs,
                   sources, err, returned, iterLog, picks, hit>>
    /\ UNCHANGED <<inputVars, otherVars>>

\* line 354-377: the deep probes of one candidate
ProbeStep ==
    /\ pc = "probe"
    /\ idx <= nProbe
    /\ LET c == candidates[idx]
           info == repoInfo[c.full_name]
           issued == /\ fault.name = c.full_name
                     /\ \E k \in 1..Len(ProbeOps(info, params)) :
                           ProbeOps(info, params)[k] = fault.op
           Fails(op) == issued /\ OpOf(fault.op) = op
           ci == info.ci /\ ~Fails("has_ci")
           ts == info.tests_path \/ info.tests_file
           rel == info.rel /\ ~Fails("has_release")
           man == info.man
           health == HealthScore(ci, ts, rel, man,
                                 params.require_ci, params.require_tests)
       IN /\ hit' = IF issued THEN fault.kind ELSE hit
          /\ IF issued /\ Propagated(OpOf(fault.op), fault.kind) # None
             THEN /\ err' = Propagated(OpOf(fault.op), fault.kind)
                  /\ pc' = "raised"
                  /\ UNCHANGED <<candidates, idx>>
             ELSE /\ candidates' = [candidates EXCEPT ![idx] =
                        [c EXCEPT !.probed = TRUE,
                                  !.ci = ci, !.ts = ts, !.rel = rel, !.man = man,
                                  !.health_score = health,
                                  !.drop = DropFlag(health, params.min_health),
                                  !.author_rep =
                                      IF params.authorsig /\ ~Fails("author_rep")
                                      THEN info.author_rep ELSE 0]]
                  /\ idx' = idx + 1
                  /\ UNCHANGED <<pc, err>>
    /\ UNCHANGED <<qi, agg, nProbe, vecs, goal_vec, pool, selected,
                   selected_vecs, sources, returned, iterLog, picks>>
    /\ UNCHANGED <<inputVars, otherVars>>

\* line 380-389: vecs = zip(keys, enc), enc being the provider's answer for the
\* probed candidates' texts
EmbedVecs ==
    IF params.embed_provider /\ nProbe > 0
    THEN LET nEnc == Max(0, nProbe - encShort)
         IN [k \in {candidates[i].full_name : i \in 1..nEnc} |-> repoInfo[k].vec]
    ELSE <<>>

\* src/embeddings.py line 9-15: OpenAIEmbedder.__init__ raises RuntimeError
\* without OPENAI_API_KEY; discover constructs the embedder at line 387 (when
\* there are texts) and at line 395 (when there is a goal)
NoApiKey == "OPENAI_API_KEY not set"
EmbedderRaises ==
    /\ params.embed_provider /\ params.openai /\ ~params.openai_key
    /\ nProbe > 0 \/ params.goal

\* line 390-395
EmbedGoal == IF params.goal /\ params.embed_provider THEN goalVec ELSE None

\* line 405-409
Relevance(c, vcs, gv) ==
    IF gv # None /\ c.full_name \in DOMAIN vcs THEN cosine(vcs[c.full_name], gv) ELSE 0

\* line 411: positions (in candidates) of the probed candidates not dropped
RECURSIVE PoolOf(_, _, _)
PoolOf(cs, i, n) ==
    IF i > n THEN <<>>
    ELSE (IF cs[i].drop THEN <<>> ELSE <<i>>) \o PoolOf(cs, i + 1, n)

\* line 379-413: embeddings, relevance, and the pool the greedy pass starts from
Rank ==
    /\ pc = "probe"
    /\ idx > nProbe
    /\ IF EmbedderRaises
       THEN /\ err' = NoApiKey
            /\ pc' = "raised"
            /\ UNCHANGED <<vecs, goal_vec, candidates, pool, selected, selected_vecs>>
       ELSE /\ vecs' = EmbedVecs
            /\ goal_vec' = EmbedGoal
            /\ candidates' = [i \in 1..Len(candidates) |->
                                IF i <= nProbe
                                THEN [candidates[i] EXCEPT
                                         !.relevance = Relevance(candidates[i], EmbedVecs,
                                                                 EmbedGoal)]
                                ELSE candidates[i]]
            /\ pool' = PoolOf(candidates, 1, nProbe)
            /\ selected' = <<>>
            /\ selected_vecs' = <<>>
            /\ pc' = "greedy"
            /\ UNCHANGED err
    /\ UNCHANGED <<qi, agg, nProbe, idx, sources, returned, iterLog, picks, hit>>
    /\ UNCHANGED <<inputVars, otherVars>>

\* the while condition of line 422
LoopCond == Len(selected) < TargetCount /\ pool # <<>>

\* line 422-443: one iteration of the greedy loop
GreedyIter ==
    /\ pc = "greedy"
    /\ LoopCond
    /\ LET divs == [i \in 1..Len(pool) |->
                      DiversityBonus(candidates[pool[i]], vecs, selected_vecs)]
           scores == [i \in 1..Len(pool) |->
                        score_item(candidates[pool[i]], divs[i], params.weights)]
           best == ScanBest(scores, 1, 0, BestSentinel)
           scored == [j \in 1..Len(candidates) |->
                        IF \E i \in 1..Len(pool) : pool[i] = j
                        THEN [candidates[j] EXCEPT
                                 !.score = scores[CHOOSE i \in 1..Len(pool) : pool[i] = j]]
                        ELSE candidates[j]]
       IN /\ candidates' = scored
          /\ iterLog' = [sel |-> selected,
                         div |-> [i \in 1..Len(pool) |->
                                    [c |-> pool[i], bonus |-> divs[i]]]]
          /\ IF best = 0
             THEN /\ pc' = "finish"
                  /\ UNCHANGED <<pool, selected, selected_vecs, picks>>
             ELSE /\ selected' = Append(selected, pool[best])
                  /\ picks' = Append(picks, pool[best])
                  /\ selected_vecs' =
                        IF candidates[pool[best]].full_name \in DOMAIN vecs
                        THEN Append(selected_vecs, vecs[candidates[pool[best]].full_name])
                        ELSE selected_vecs
                  /\ pool' = RemoveAt(pool, best)
                  /\ pc' = IF Len(selected) + 1 >= TargetCount THEN "finish" ELSE "greedy"
    /\ UNCHANGED <<qi, agg, nProbe, idx, vecs, goal_vec, sources, err, returned, hit>>
    /\ UNCHANGED <<inputVars, otherVars>>

\* line 446: the fallback list, as positions in candidates
InProbe(i) == \E j \in 1..nProbe : candidates[j].full_name = candidates[i].full_name

\* Fallback taken from the candidates that passed the health filter only
FallbackSkipDropped ==
    LET inProbe == SelectSeq([i \in 1..Len(candidates) |->
                                 [pos |-> i, novelty_score |-> candidates[i].novelty_score]],
                             LAMBDA e : InProbe(e.pos) /\ ~candidates[e.pos].drop)
        ranked == SortDesc(inProbe)
    IN [k \in 1..Min(FallbackTake, Len(ranked)) |-> ranked[k].pos]

Fallback ==
    LET inProbe == SelectSeq([i \in 1..Len(candidates) |->
                                 [pos |-> i, novelty_score |-> candidates[i].novelty_score]],
                             LAMBDA e : InProbe(e.pos))
        ranked == SortDesc(inProbe)
    IN [k \in 1..Min(FallbackTake, Len(ranked)) |-> ranked[k].pos]

\* line 445-490: the fallback test and the blueprint
Finish ==
    /\ IF pc = "greedy" THEN ~LoopCond ELSE pc = "finish"
    /\ selected' = IF Len(selected) < FallbackMin THEN Fallback ELSE selected
    /\ sources' = [i \in 1..Len(selected') |-> candidates[selected'[i]].full_name]
    /\ pc' = "done"
    /\ UNCHANGED <<qi, agg, candidates, nProbe, idx, vecs, goal_vec, pool,
                   selected_vecs, err, returned, iterLog, picks, hit>>
    /\ UNCHANGED <<inputVars, otherVars>>

Next == Aggregate \/ SortTruncate \/ ProbeStep \/ Rank \/ GreedyIter \/ Finish

\* src/cli.py line 91-98: main exits with status 2 without a token, before
\* discover is called
MissingToken == "Missing token"
Main ==
    /\ pc = "main"
    /\ IF ~params.token
       THEN /\ err' = MissingToken
            /\ pc' = "exit"
       ELSE /\ pc' = "aggregate"
            /\ UNCHANGED err
    /\ UNCHANGED <<qi, agg, candidates, nProbe, idx, vecs, goal_vec, pool, selected,
                   selected_vecs, sources, returned, iterLog, picks, hit>>
    /\ UNCHANGED <<inputVars, otherVars>>

NextCli == Main \/ Next

\* the state of discover when it starts on its inputs
Entry(p) ==
    /\ pc = p
    /\ qi = 1
    /\ agg = <<>>
    /\ candidates = <<>>
    /\ nProbe = 0
    /\ idx = 1
    /\ vecs = <<>>
    /\ goal_vec = None
    /\ pool = <<>>
    /\ selected = <<>>
    /\ selected_vecs = <<>>
    /\ sources = <<>>
    /\ returned = <<>>
    /\ iterLog = [sel |-> <<>>, div |-> <<>>]
    /\ picks = <<>>
    /\ err = None
    /\ hit = None

StartAt(p) == Entry(p) /\ GhIdle /\ CompIdle

Start == StartAt("aggregate")

\* ------------------------------------------------------------------ inputs
Names == 1..NumNames
NovVals == {One \div 3, (2 * One) \div 3, One}
\* a license the default filter lets through and one it does not
LicVals == {"MIT", "GPL-3.0"}

RawInst == [novelty_score : NovVals, license : LicVals]

\* inst tells the instances of a run apart: it stands for the fields of an item
\* (html_url, description, stargazers_count, ...) the pipeline only carries along
Tagged(names, attrs) ==
    [r \in 1..Len(names) |->
        [full_name |-> names[r], novelty_score |-> attrs[r].novelty_score,
         license |-> attrs[r].license, inst |-> r]]

\* repositories are numbered in the order in which they first appear
FirstSeenOrder(names) ==
    \A i \in 1..Len(names) :
       \/ names[i] = 1
       \/ \E j \in 1..(i - 1) : names[j] >= names[i] - 1

PlainParams ==
    [licenses |-> DefaultLicenses, probe_limit |-> ProbeLimitDefault,
     min_health |-> 0, require_ci |-> FALSE, require_tests |-> FALSE,
     authorsig |-> FALSE, embed_provider |-> FALSE, goal |-> FALSE,
     weights |-> DefaultWeights, token |-> TRUE, openai |-> FALSE,
     openai_key |-> FALSE, exclude_processed |-> FALSE]

PlainInfo ==
    [ci |-> TRUE, tests_path |-> TRUE, tests_file |-> FALSE, rel |-> FALSE,
     man |-> TRUE, author_rep |-> 0, vec |-> <<1, 0>>, readme_cached |-> FALSE]

\* aggregation: two queries returning up to MaxResults items between them, over
\* NumNames repositories, with and without a license filter
InitAgg ==
    /\ \E n \in 0..MaxResults :
       \E names \in {f \in [1..n -> Names] : FirstSeenOrder(f)} :
       \E attrs \in [1..n -> RawInst], k \in 0..n :
          results = <<SubSeq(Tagged(names, attrs), 1, k),
                      SubSeq(Tagged(names, attrs), k + 1, n)>>
    /\ \E lics \in {{}, DefaultLicenses} :
          params = [PlainParams EXCEPT !.licenses = lics]
    /\ repoInfo = [n \in Names |-> PlainInfo]
    /\ goalVec = <<1, 0>>
    /\ encShort = 0
    /\ fault = NoFault
    /\ Start

SpecAgg == InitAgg /\ [][Next]_vars

\* selection: n repositories returned by one query, each of one of four kinds,
\* listed in ascending novelty (discover sorts them); kinds Kind[1] and Kind[2]
\* tie on novelty
Kind ==
    <<[novelty_score |-> One, ci |-> TRUE, ts |-> TRUE, rel |-> TRUE, man |-> TRUE,
       author_rep |-> 0, vec |-> <<1, 0>>],
      [novelty_score |-> One, ci |-> FALSE, ts |-> FALSE, rel |-> FALSE, man |-> FALSE,
       author_rep |-> One, vec |-> <<-1, 0>>],
      [novelty_score |-> (2 * One) \div 3, ci |-> TRUE, ts |-> TRUE, rel |-> FALSE,
       man |-> FALSE, author_rep |-> 0, vec |-> <<0, 1>>],
      [novelty_score |-> One \div 3, ci |-> TRUE, ts |-> TRUE, rel |-> TRUE, man |-> TRUE,
       author_rep |-> 0, vec |-> <<-1, 0>>]>>

WeightChoices ==
    {DefaultWeights,
     [novelty |-> 0, health |-> 0, relevance |-> WOne, author |-> 0, diversity |-> 0],
     [novelty |-> 0, health |-> 0, relevance |-> 0, author |-> 0, diversity |-> 0],
     [novelty |-> 0, health |-> WOne, relevance |-> 0, author |-> 0, diversity |-> 2 * WOne],
     [novelty |-> WOne, health |-> 0, relevance |-> 2 * WOne, author |-> WOne, diversity |-> WOne]}

InitSel ==
    /\ \E n \in 0..MaxProbe :
       \E ks \in {f \in [1..n -> 1..Len(Kind)] :
                    \A i \in 1..(n - 1) :
                       Kind[f[i]].novelty_score <= Kind[f[i + 1]].novelty_score} :
          /\ results = <<[r \in 1..n |->
                            [full_name |-> r, novelty_score |-> Kind[ks[r]].novelty_score,
                             license |-> "MIT", inst |-> r]]>>
          /\ repoInfo = [r \in 1..n |->
                            [PlainInfo EXCEPT
                                !.ci = Kind[ks[r]].ci, !.tests_path = Kind[ks[r]].ts,
                                !.rel = Kind[ks[r]].rel, !.man = Kind[ks[r]].man,
                                !.author_rep = Kind[ks[r]].author_rep,
                                !.vec = Kind[ks[r]].vec]]
    /\ \E mh \in {0, (3 * One) \div 4}, w \in WeightChoices,
          em \in {<<FALSE, FALSE, 0>>, <<TRUE, FALSE, 0>>, <<TRUE, FALSE, 1>>,
                  <<TRUE, TRUE, 0>>, <<TRUE, TRUE, 1>>} :
          /\ params = [PlainParams EXCEPT !.min_health = mh, !.weights = w,
                                          !.authorsig = TRUE,
                                          !.embed_provider = em[1], !.goal = em[2]]
          /\ encShort = em[3]
    /\ goalVec = <<1, 0>>
    /\ fault = NoFault
    /\ Start

SpecSel == InitSel /\ [][Next]_vars

\* the probe limit: n repositories returned by the first query, healthy
\* (Kind[4]) or not (Kind[2]), the first of them returned again by the second
\* query, and a probe limit below, at or above their number
ProbeLimits == {0, 1, 3, 6, ProbeLimitDefault}
InitLimit ==
    /\ \E n \in 0..MaxProbe, m \in 0..1 :
       \E ks \in {f \in [1..n -> {2, 4}] :
                    \A i \in 1..(n - 1) :
                       Kind[f[i]].novelty_score <= Kind[f[i + 1]].novelty_score} :
          /\ m <= n
          /\ results = <<[r \in 1..n |->
                            [full_name |-> r, novelty_score |-> Kind[ks[r]].novelty_score,
                             license |-> "MIT", inst |-> r]],
                         [r \in 1..m |->
                            [full_name |-> r, novelty_score |-> One,
                             license |-> "MIT", inst |-> n + r]]>>
          /\ repoInfo = [r \in 1..n |->
                            [PlainInfo EXCEPT
                                !.ci = Kind[ks[r]].ci, !.tests_path = Kind[ks[r]].ts,
                                !.rel = Kind[ks[r]].rel, !.man = Kind[ks[r]].man,
                                !.author_rep = Kind[ks[r]].author_rep,
                                !.vec = Kind[ks[r]].vec]]
    /\ \E mh \in {0, (3 * One) \div 4}, pl \in ProbeLimits :
          params = [PlainParams EXCEPT !.min_health = mh, !.probe_limit = pl]
    /\ encShort = 0
    /\ goalVec = <<1, 0>>
    /\ fault = NoFault
    /\ Start

SpecLimit == InitLimit /\ [][Next]_vars

\* licenses: up to MaxLicensed repositories, healthy or not, each under a
\* license of the default set, under another license or under none ("" is
\* what line 342 makes of a missing spdx_id), and three allowed sets
Licenses == {"MIT", "GPL-3.0", ""}
AllowedSets == {{}, DefaultLicenses, {"GPL-3.0"}}
InitLicense ==
    /\ \E n \in 0..MaxLicensed :
       \E ks \in {f \in [1..n -> {2, 4}] :
                    \A i \in 1..(n - 1) :
                       Kind[f[i]].novelty_score <= Kind[f[i + 1]].novelty_score},
          ls \in [1..n -> Licenses] :
          /\ results = <<[r \in 1..n |->
                            [full_name |-> r, novelty_score |-> Kind[ks[r]].novelty_score,
                             license |-> ls[r], inst |-> r]]>>
          /\ repoInfo = [r \in 1..n |->
                            [PlainInfo EXCEPT
                                !.ci = Kind[ks[r]].ci, !.tests_path = Kind[ks[r]].ts,
                                !.rel = Kind[ks[r]].rel, !.man = Kind[ks[r]].man,
                                !.author_rep = Kind[ks[r]].author_rep,
                                !.vec = Kind[ks[r]].vec]]
    /\ \E mh \in {0, (3 * One) \div 4}, lics \in AllowedSets :
          params = [PlainParams EXCEPT !.min_health = mh, !.licenses = lics]
    /\ encShort = 0
    /\ goalVec = <<1, 0>>
    /\ fault = NoFault
    /\ Start

SpecLicense == InitLicense /\ [][Next]_vars

\* health: up to MaxProbeH repositories with every combination of the four
\* indicators, under every combination of the two require flags
InitProbe ==
    /\ \E n \in 0..MaxProbeH :
       \E ind \in [1..n -> [ci : BOOLEAN, tests_path : BOOLEAN, tests_file : BOOLEAN,
                             rel : BOOLEAN, man : BOOLEAN]] :
          /\ results = <<[r \in 1..n |->
                            [full_name |-> r, novelty_score |-> One \div 3,
                             license |-> "MIT", inst |-> r]]>>
          /\ repoInfo = [r \in 1..n |->
                            [PlainInfo EXCEPT
                                !.ci = ind[r].ci, !.tests_path = ind[r].tests_path,
                                !.tests_file = ind[r].tests_file,
                                !.rel = ind[r].rel, !.man = ind[r].man]]
    /\ \E rc \in BOOLEAN, rt \in BOOLEAN, mh \in {0, One \div 4, One \div 2} :
          params = [PlainParams EXCEPT !.require_ci = rc, !.require_tests = rt,
                                       !.min_health = mh]
    /\ goalVec = <<1, 0>>
    /\ encShort = 0
    /\ fault = NoFault
    /\ Start

SpecProbe == InitProbe /\ [][Next]_vars

\* failures: up to MaxRunRepos repositories returned by two queries, and at
\* most one request of the run, a search or a probe's, whose gh_get call fails
Requests ==
    {"get_topics", "get_readme_text", "has_ci", "has_tests", "has_tests_2",
     "has_release", "has_manifest", "author_rep"}

Faults(n) ==
    {NoFault}
    \cup {[NoFault EXCEPT !.q = k, !.kind = e] : k \in 1..2, e \in GhFailures}
    \cup {[NoFault EXCEPT !.name = r, !.op = o, !.kind = e] :
             r \in 1..n, o \in Requests, e \in GhFailures}

InitRun ==
    /\ \E n \in 0..MaxRunRepos :
          /\ \E k \in {(n + 1) \div 2} :
                results = <<[r \in 1..k |->
                               [full_name |-> r, novelty_score |-> One \div 3,
                                license |-> "MIT", inst |-> r]],
                            [r \in 1..(n - k) |->
                               [full_name |-> k + r, novelty_score |-> One \div 3,
                                license |-> "MIT", inst |-> k + r]]>>
          /\ \E tp \in [1..n -> BOOLEAN], rc \in [1..n -> BOOLEAN] :
                repoInfo = [r \in 1..n |->
                              [PlainInfo EXCEPT !.tests_path = tp[r],
                                                !.readme_cached = rc[r]]]
          /\ fault \in Faults(n)
    /\ \E g \in BOOLEAN, a \in BOOLEAN :
          params = [PlainParams EXCEPT !.goal = g, !.authorsig = a]
    /\ goalVec = <<1, 0>>
    /\ encShort = 0
    /\ Start

SpecRun == InitRun /\ [][Next]_vars

\* the API client: one gh_get call of any endpoint class with a retry budget up
\* to MaxRetry, on a planner just constructed, or one that has recorded a
\* request a second ago, or one whose window is full for code search
UsedState ==
    [limit |-> 30, remaining |-> 20, reset_time |-> StartTime + 90 * Sec,
     last_request_time |-> StartTime - 1 * Sec, requests_this_window |-> 1,
     window_start |-> StartTime - 10 * Sec]
Planners ==
    {SearchPlanner(StartTime),
     [e \in EndpointTypes |-> UsedState],
     [e \in EndpointTypes |-> [UsedState EXCEPT !.requests_this_window = CodeSearchRpm]]}

InitGh ==
    /\ results = <<>>
    /\ params = PlainParams
    /\ repoInfo = <<>>
    /\ goalVec = <<1, 0>>
    /\ encShort = 0
    /\ fault = NoFault
    /\ pc = "aggregate" /\ qi = 1 /\ agg = <<>> /\ candidates = <<>> /\ nProbe = 0
    /\ idx = 1 /\ vecs = <<>> /\ goal_vec = None /\ pool = <<>> /\ selected = <<>>
    /\ selected_vecs = <<>> /\ sources = <<>> /\ returned = <<>>
    /\ iterLog = [sel |-> <<>>, div |-> <<>>] /\ picks = <<>>
    /\ err = None /\ hit = None
    /\ now = StartTime
    /\ planner \in Planners
    /\ \E e \in EndpointTypes, n \in 0..MaxRetry :
          gh = [pc |-> "wait", endpoint_type |-> e, retry |-> n, attempt |-> 0,
                r |-> NoResp, value |-> 0, error |-> None, status |-> 0]
    /\ sent = <<>>
    /\ sleeps = <<>>
    /\ CompIdle

SpecGh == InitGh /\ [][NextGh]_vars

\* the URLs gh_get is called with: the two searches, a repository, its README,
\* and two URLs no caller builds, a third search and a path that only
\* contains a search path
Urls ==
    {SearchRepositories, SearchCode, <<"/repos", "/o", "/r">>,
     <<"/repos", "/o", "/r", "/readme">>, <<"/search", "/issues">>,
     <<"/proxy", "/search", "/code", "x">>}


\* the state of discover and of gh_get when neither is running
DiscIdle ==
    /\ results = <<>> /\ params = PlainParams /\ repoInfo = <<>>
    /\ goalVec = <<1, 0>> /\ encShort = 0 /\ fault = NoFault
    /\ pc = "idle" /\ qi = 1 /\ agg = <<>> /\ candidates = <<>> /\ nProbe = 0
    /\ idx = 1 /\ vecs = <<>> /\ goal_vec = None /\ pool = <<>> /\ selected = <<>>
    /\ selected_vecs = <<>> /\ sources = <<>> /\ returned = <<>>
    /\ iterLog = [sel |-> <<>>, div |-> <<>>] /\ picks = <<>>
    /\ err = None /\ hit = None
    /\ gh = [pc |-> "idle", endpoint_type |-> "rest", retry |-> 0, attempt |-> 0,
             r |-> NoResp, value |-> 0, error |-> None, status |-> 0]
    /\ sent = <<>> /\ sleeps = <<>>

\* the planner: a session of up to MaxRequests requests of one endpoint class
\* on a planner just constructed
InitPlanner ==
    /\ DiscIdle
    /\ now = StartTime
    /\ planner = SearchPlanner(StartTime)
    /\ \E e \in EndpointTypes :
          ps = [pc |-> "ready", class |-> e, n |-> 0, thought |-> FALSE,
                last |-> [called |-> FALSE]]
    /\ cache = [repositories |-> <<>>, readmes |-> <<>>, health_metrics |-> <<>>,
                embeddings |-> <<>>, processed_repos |-> <<>>]
    /\ cres = [op |-> "none"]
    /\ pure = [fn |-> "none"]

SpecPlanner == InitPlanner /\ [][NextPlanner]_vars

\* the cache: a session of up to MaxCacheOps writes and pauses on one table of
\* a database just created, with reads in between
InitCache ==
    /\ DiscIdle
    /\ now = StartTime
    /\ planner = SearchPlanner(StartTime)
    /\ ps = [pc |-> "idle"]
    /\ cache = NoTables
    /\ \E ns \in Tables :
          cres = [op |-> "open", ns |-> ns, n |-> 0, id |-> "", t |-> 0,
                  found |-> FALSE, value |-> None, last |-> <<>>, bymodel |-> <<>>]
    /\ pure = [fn |-> "none"]

SpecCache == InitCache /\ [][NextCache]_vars

\* the cache: a session of writes on one table, the processed markers among
\* them, with clear_all and reads in between
InitClear ==
    /\ DiscIdle
    /\ now = StartTime
    /\ planner = SearchPlanner(StartTime)
    /\ ps = [pc |-> "idle"]
    /\ cache = NoTables
    /\ \E ns \in Tables \cup {"processed_repos"} :
          cres = [op |-> "open", ns |-> ns, n |-> 0, id |-> "", t |-> 0,
                  found |-> FALSE, value |-> None, last |-> <<>>, bymodel |-> <<>>,
                  cleared |-> FALSE]
    /\ pure = [fn |-> "none"]

SpecClear == InitClear /\ [][NextClear]_vars

\* the components other than the pure helpers, not in use
NoSession ==
    /\ DiscIdle
    /\ now = StartTime
    /\ planner = SearchPlanner(StartTime)
    /\ ps = [pc |-> "idle"]
    /\ cache = NoTables
    /\ cres = [op |-> "none"]

\* build_queries: lists of up to MaxTopics topics
InitQueries ==
    /\ NoSession
    /\ pure \in [fn : {"build_queries"}, pc : {"call"},
                  topics : UNION {[1..k -> Topics] : k \in 0..MaxTopics},
                  explore_longtail : BOOLEAN, max_stars : {None, "50"}, out : {<<>>}]

SpecQueries == InitQueries /\ [][NextQueries]_vars

\* novelty_score: one repository per behaviour
InitNovelty ==
    /\ NoSession
    /\ pure \in [fn : {"novelty_score"}, pc : {"call"}, repo : Repos, out : {0},
                  unforked : {0}]

SpecNovelty == InitNovelty /\ [][NextNovelty]_vars

\* cosine: every pair of vectors
InitCosine ==
    /\ NoSession
    /\ pure \in [fn : {"cosine"}, pc : {"call"}, a : Vectors, b : Vectors, out : {0}]

SpecCosine == InitCosine /\ [][NextCosine]_vars

InitShard ==
    /\ NoSession
    /\ pure \in [fn : {"shard_query_by_time"}, pc : {"call"},
                  base_query : {"topic:rust stars:>100"}, days : Lookbacks,
                  max_results_per_shard : ShardSizes, today : Todays, out : {<<>>}]

SpecShard == InitShard /\ [][NextShard]_vars

\* extract_concepts: texts of up to MaxTextLen words, topk 0, 1 or the default
TopKs == {0, 1, 8}
InitConcepts ==
    /\ NoSession
    /\ pure \in [fn : {"extract_concepts"}, pc : {"call"},
                  text : UNION {[1..k -> Words] : k \in 0..MaxTextLen},
                  topk : TopKs, out : {<<>>}]

SpecConcepts == InitConcepts /\ [][NextConcepts]_vars

\* the command line: discover started from main, with or without a token, an
\* embedding provider, a goal and the provider's API key
InitCli ==
    /\ \E n \in 0..MaxRunRepos :
          /\ \E k \in {(n + 1) \div 2} :
                results = <<[r \in 1..k |->
                               [full_name |-> r, novelty_score |-> One \div 3,
                                license |-> "MIT", inst |-> r]],
                            [r \in 1..(n - k) |->
                               [full_name |-> k + r, novelty_score |-> One \div 3,
                                license |-> "MIT", inst |-> k + r]]>>
          /\ \E tp \in [1..n -> BOOLEAN] :
                repoInfo = [r \in 1..n |-> [PlainInfo EXCEPT !.tests_path = tp[r]]]
    /\ fault = NoFault
    /\ \E tk \in BOOLEAN, ep \in BOOLEAN, oa \in BOOLEAN, key \in BOOLEAN, g \in BOOLEAN :
          params = [PlainParams EXCEPT !.token = tk, !.embed_provider = ep,
                                      !.openai = oa, !.openai_key = key, !.goal = g]
    /\ goalVec = <<1, 0>>
    /\ encShort = 0
    /\ StartAt("main")

SpecCli == InitCli /\ [][NextCli]_vars

\* a run over repositories some of which a prior run marked processed
\* (src/ultra_autonomous.py line 208-235 passes exclude_processed to discover)
InitProcessed ==
    /\ \E n \in 1..MaxRunRepos :
          /\ results = <<[r \in 1..n |->
                            [full_name |-> r, novelty_score |-> One \div 3,
                             license |-> "MIT", inst |-> r]]>>
          /\ \E tp \in [1..n -> BOOLEAN], rl \in [1..n -> BOOLEAN] :
                repoInfo = [r \in 1..n |-> [PlainInfo EXCEPT !.tests_path = tp[r],
                                                             !.rel = rl[r]]]
          /\ \E done \in SUBSET (1..n) :
                cache = [NoTables EXCEPT !.processed_repos =
                            [r \in done |-> [processed_at |-> StartTime - Hour, info |-> None]]]
    /\ fault = NoFault
    /\ \E x \in BOOLEAN : params = [PlainParams EXCEPT !.exclude_processed = x]
    /\ goalVec = <<1, 0>>
    /\ encShort = 0
    /\ Entry("aggregate")
    /\ GhIdle
    /\ ps = [pc |-> "idle"]
    /\ cres = [op |-> "none"]
    /\ pure = [fn |-> "none"]

SpecProcessed == InitProcessed /\ [][Next]_vars

\* gh_get(url, token) called with the planner enabled
InitUrl ==
    /\ results = <<>> /\ params = PlainParams /\ repoInfo = <<>>
    /\ goalVec = <<1, 0>> /\ encShort = 0 /\ fault = NoFault
    /\ Entry("idle")
    /\ now = StartTime
    /\ planner \in Planners
    /\ gh \in {[pc |-> "wait", url |-> u, endpoint_type |-> EndpointType(u), retry |-> n,
                attempt |-> 0, r |-> NoResp, value |-> 0, error |-> None, status |-> 0] :
                   u \in Urls, n \in 0..MaxRetry}
    /\ sent = <<>>
    /\ sleeps = <<>>
    /\ CompIdle

SpecUrl == InitUrl /\ [][NextGh]_vars

\* a process in which neither global instance exists yet
InitSingle ==
    /\ DiscIdle
    /\ now = StartTime
    /\ planner = SearchPlanner(StartTime)
    /\ ps = [pc |-> "single", n |-> 0, search_planner |-> 0, repo_cache |-> 0,
             planners |-> <<>>, caches |-> 0, got |-> <<>>, gotc |-> <<>>, log |-> <<>>]
    /\ cache = NoTables
    /\ cres = [op |-> "none"]
    /\ pure = [fn |-> "none"]

SpecSingle == InitSingle /\ [][NextSingle]_vars

\* ================================================================ claims
Range(f) == {f[i] : i \in DOMAIN f}
AggDone == qi > Len(results)
SameRepo(i, j) == returned[i].full_name = returned[j].full_name
Passes(i) == LicensePasses(params.licenses, returned[i])
UniqueKeys == \A p, q \in 1..Len(agg) : agg[p].full_name = agg[q].full_name => p = q

\* C1 as stated: after aggregation the aggregate holds at most one candidate
\* per full_name; whenever a full_name was returned with two novelty scores
\* N1 < N2, its survivor is a returned instance of that full_name of the highest
\* novelty returned for it, with exactly that instance's fields.
C1_HighestReturnedSurvives ==
    AggDone =>
        /\ UniqueKeys
        /\ \A i, j \in 1..Len(returned) :
              (SameRepo(i, j) /\ returned[i].novelty_score < returned[j].novelty_score)
              => \E p \in 1..Len(agg), m \in 1..Len(returned) :
                    /\ agg[p] = returned[m]
                    /\ SameRepo(m, j)
                    /\ \A l \in 1..Len(returned) :
                          SameRepo(l, j) =>
                              returned[l].novelty_score <= returned[m].novelty_score

\* C1 amended: the same, counting only the instances that pass the license
\* filter; a full_name none of whose instances passes it is not in the aggregate.
C1_HighestPassingSurvives ==
    AggDone =>
        /\ UniqueKeys
        /\ \A p \in 1..Len(agg) :
              \E m \in 1..Len(returned) :
                 /\ agg[p] = returned[m]
                 /\ Passes(m)
                 /\ \A l \in 1..Len(returned) :
                       (SameRepo(l, m) /\ Passes(l)) =>
                           returned[l].novelty_score <= returned[m].novelty_score
        /\ \A m \in 1..Len(returned) :
              Passes(m) => \E p \in 1..Len(agg) : agg[p].full_name = returned[m].full_name

\* a repository returned first with the lower and later, by another query, with
\* the higher score, and another returned first with the higher: each time the
\* higher instance is the survivor
C1_Witness ==
    /\ AggDone
    /\ \E i, j \in 1..Len(returned), p \in 1..Len(agg) :
          /\ i < j /\ SameRepo(i, j) /\ Passes(i) /\ Passes(j)
          /\ returned[i].novelty_score < returned[j].novelty_score
          /\ i <= Len(results[1]) /\ j > Len(results[1])
          /\ agg[p] = returned[j]
    /\ \E i, j \in 1..Len(returned), p \in 1..Len(agg) :
          /\ i < j /\ SameRepo(i, j) /\ Passes(i) /\ Passes(j)
          /\ returned[i].novelty_score > returned[j].novelty_score
          /\ agg[p] = returned[i]

Surviving == {i \in 1..nProbe : ~candidates[i].drop}
NameOf(i) == candidates[i].full_name
NamesOf(seq) == [k \in 1..Len(seq) |-> NameOf(seq[k])]
WeightsNonNegative ==
    /\ params.weights.novelty >= 0 /\ params.weights.health >= 0
    /\ params.weights.relevance >= 0 /\ params.weights.author >= 0
    /\ params.weights.diversity >= 0

\* C2: when at least 6 probed candidates survive the health filter, then for
\* non-negative weights discover returns exactly 6 sources, all of them
\* survivors, and the fallback is not taken.
C2_SixOfSixSurvivors ==
    (pc = "done" /\ Cardinality(Surviving) >= TargetCount /\ WeightsNonNegative)
    => /\ Len(sources) = TargetCount
       /\ \A k \in 1..Len(sources) : \E i \in Surviving : NameOf(i) = sources[k]
       /\ Len(picks) >= FallbackMin

NoveltyOfName(n) ==
    candidates[CHOOSE i \in 1..Len(candidates) : NameOf(i) = n].novelty_score

\* C3: when the greedy pass picked fewer than 3, the sources are the first
\* min(3, |probed|) of the probed set by descending novelty, dropped or not;
\* otherwise they are the greedy picks in pick order.
C3_FallbackOrGreedy ==
    pc = "done" =>
        IF Len(picks) < 3
        THEN /\ Len(sources) = Min(3, nProbe)
             /\ \A k, l \in 1..Len(sources) : sources[k] = sources[l] => k = l
             /\ \A k \in 1..Len(sources) : \E i \in 1..nProbe : NameOf(i) = sources[k]
             /\ \A k, l \in 1..Len(sources) :
                   k < l => NoveltyOfName(sources[k]) >= NoveltyOfName(sources[l])
             /\ \A i \in 1..nProbe :
                   (\A k \in 1..Len(sources) : sources[k] # NameOf(i))
                   => \A k \in 1..Len(sources) :
                         candidates[i].novelty_score <= NoveltyOfName(sources[k])
        ELSE sources = NamesOf(picks)

\* the fallback returns three of at least four probed candidates, one of them
\* dropped by the health filter
C3_Witness ==
    /\ pc = "done"
    /\ Len(picks) < 3
    /\ nProbe >= 4
    /\ Len(sources) = 3
    /\ \E i \in 1..nProbe : candidates[i].drop /\ NameOf(i) \in Range(sources)

\* C4: with require_ci (require_tests) set, no candidate without CI (tests) is
\* in the pool the greedy pass works on, nor among its picks, whatever
\* min_health is.
C4_RequiredIndicatorGate ==
    pc \in {"greedy", "finish", "done"} =>
        \A i \in Range(pool) \cup Range(picks) :
           /\ params.require_ci => candidates[i].ci
           /\ params.require_tests => candidates[i].ts

HasEmbedding(i) == NameOf(i) \in DOMAIN vecs

\* C5 as stated: in every greedy iteration the bonus is 1.0 if nothing has been
\* selected yet, and 0.0 for a candidate without embedding once at least one
\* candidate has been selected.
C5_BonusByNumberSelected ==
    \A k \in 1..Len(iterLog.div) :
       /\ iterLog.sel = <<>> => iterLog.div[k].bonus = One
       /\ (~HasEmbedding(iterLog.div[k].c) /\ iterLog.sel # <<>>)
          => iterLog.div[k].bonus = 0

\* C5 amended: the bonus is 1.0 if nothing has been selected yet, and 0.0 for a
\* candidate without embedding once at least one selected candidate has an
\* embedding.
C5_BonusBySelectedEmbeddings ==
    \A k \in 1..Len(iterLog.div) :
       /\ iterLog.sel = <<>> => iterLog.div[k].bonus = One
       /\ (~HasEmbedding(iterLog.div[k].c)
           /\ \E j \in Range(iterLog.sel) : HasEmbedding(j))
          => iterLog.div[k].bonus = 0

\* an iteration after a pick with an embedding, scoring a candidate without one
C5_Witness ==
    \E k \in 1..Len(iterLog.div) :
       /\ ~HasEmbedding(iterLog.div[k].c)
       /\ \E j \in Range(iterLog.sel) : HasEmbedding(j)
       /\ iterLog.div[k].bonus = 0

TrueIndicators(info) ==
    Cardinality({x \in {"ci", "ts", "rel", "man"} :
                    \/ x = "ci" /\ info.ci
                    \/ x = "ts" /\ info.ts
                    \/ x = "rel" /\ info.rel
                    \/ x = "man" /\ info.man})

\* C6: a probed candidate's health_score is 0.25 times the number of true
\* indicators, except that it is 0.0 when require_ci is set and CI is absent or
\* require_tests is set and tests are absent.
C6_HealthScore ==
    \A i \in 1..Len(candidates) :
       candidates[i].probed =>
          LET info == candidates[i]
          IN candidates[i].health_score =
                IF (params.require_ci /\ ~info.ci) \/ (params.require_tests /\ ~info.ts)
                THEN 0
                ELSE (One * TrueIndicators(info)) \div 4

\* a candidate with tests, release and manifest but no CI, probed under
\* require_ci, and one with CI, release and manifest but no tests under
\* require_tests
C6_Witness ==
    /\ params.require_ci /\ params.require_tests
    /\ \E i \in 1..Len(candidates) :
          /\ candidates[i].probed /\ candidates[i].health_score = 0
          /\ ~candidates[i].ci /\ candidates[i].ts
          /\ candidates[i].rel /\ candidates[i].man
    /\ \E i \in 1..Len(candidates) :
          /\ candidates[i].probed /\ candidates[i].health_score = 0
          /\ candidates[i].ci /\ ~candidates[i].ts
          /\ candidates[i].rel /\ candidates[i].man

\* C9: a failure of the underlying request of a search or a probe is never
\* propagated: discover does not end with the exception of a request that
\* failed otherwise than by exhausting the rate-limit retries.
C9_FailureNeverPropagated ==
    hit \in (GhFailures \ {"RateLimitExceeded"}) => (pc # "raised" /\ err = None)

\* C10: once a request of the run has exhausted its retries on a rate-limit
\* violation, discover does not return a blueprint.
C10_RateLimitExhaustionFatal ==
    hit = "RateLimitExceeded" => pc # "done"

Terminal == gh.pc \in {"returned", "raised"}
RateLimit403(r) == r.status = 403 /\ r.rate_limit_text
Success(r) == r.status >= 200 /\ r.status < 300
ResetOf(r) == IF r.has_quota THEN r.reset ELSE 0
RetrySleeps == SelectSeq(sleeps, LAMBDA z : z.by = "retry")

\* C7: a gh_get call with retry budget R >= 1 whose every response is a
\* rate-limit 403 issues exactly R requests, sleeps max(reset - now, 60) + 2
\* seconds after each of the first R - 1 responses and before the next request,
\* and ends with the rate-limit error; a successful response is the last
\* request of its call, and the call returns its body.
C7_RetryOnRateLimit ==
    /\ (Terminal /\ gh.retry >= 1 /\ gh.error # "RequestException"
        /\ \A k \in 1..Len(sent) : RateLimit403(sent[k].resp))
       => /\ Len(sent) = gh.retry
          /\ gh.pc = "raised" /\ gh.error = "RateLimitExceeded"
          /\ Len(RetrySleeps) = gh.retry - 1
          /\ \A k \in 1..Len(RetrySleeps) :
                /\ RetrySleeps[k].at = sent[k].done
                /\ RetrySleeps[k].dur =
                      Max(ResetOf(sent[k].resp) - sent[k].done, 60 * Sec) + 2 * Sec
                /\ sent[k + 1].at >= sent[k].done + RetrySleeps[k].dur
    /\ \A k \in 1..Len(sent) :
          Success(sent[k].resp)
          => /\ k = Len(sent)
             /\ gh.pc \in {"handle", "returned"}
             /\ gh.pc = "returned" => gh.value = sent[k].resp.body

\* a call with budget 3 that ends with the rate-limit error, having slept the
\* floor once and until a later advertised reset once
C7_Witness ==
    /\ gh.pc = "raised" /\ gh.error = "RateLimitExceeded" /\ gh.retry = 3
    /\ \E k, l \in 1..Len(RetrySleeps) :
          /\ RetrySleeps[k].dur = 62 * Sec
          /\ RetrySleeps[l].dur > 62 * Sec

\* C8: a response that is neither 2xx nor a rate-limit 403 is the last request
\* of its call, whatever is left of the retry budget, and the call ends with
\* the HTTP error of that status.
C8_OtherErrorsFailAtOnce ==
    \A k \in 1..Len(sent) :
       (~Success(sent[k].resp) /\ ~RateLimit403(sent[k].resp))
       => /\ k = Len(sent)
          /\ gh.pc \in {"handle", "raised"}
          /\ gh.pc = "raised" =>
                (gh.error = "HTTPError" /\ gh.status = sent[k].resp.status)

\* a call that fails on a 429 mentioning the rate limit, after one retry and
\* with one attempt left
C8_Witness ==
    /\ gh.pc = "raised" /\ gh.error = "HTTPError" /\ gh.status = 429
    /\ Len(sent) = 2 /\ gh.retry = 3
    /\ sent[2].resp.rate_limit_text

Ceiling(class) ==
    IF class = "search" THEN 28 ELSE IF class = "code_search" THEN 8 ELSE 5000

\* C11: every wait_if_needed call sleeps once at most and returns what it
\* slept: with remaining quota <= 3, until the reported reset (not at all if it
\* is past) plus 1 second; otherwise, with the count of a window younger than
\* 60 seconds at the ceiling, until the window has rolled over, and a new
\* window starts with count 0; otherwise the rest of 2.5 seconds since the last
\* request, if any.
C11_WaitDecisionOrder ==
    (ps.pc # "idle" /\ ps.last.called) =>
       LET c == ps.last
           age == c.t - c.pre.window_start
           since == c.t - c.pre.last_request_time
       IN /\ c.ret = c.slept
          /\ c.slept >= 0
          /\ IF c.pre.remaining <= 3
             THEN /\ c.slept = Max(0, c.pre.reset_time - c.t) + 1 * Sec
                  /\ c.post = c.pre
             ELSE IF age < 60 * Sec /\ c.pre.requests_this_window >= Ceiling(ps.class)
             THEN /\ c.t + c.slept >= c.pre.window_start + 60 * Sec
                  /\ c.t + c.slept <= c.pre.window_start + 61 * Sec
                  /\ c.post = [c.pre EXCEPT !.requests_this_window = 0,
                                             !.window_start = c.t + c.slept]
             ELSE /\ c.slept = (IF since < (5 * Sec) \div 2
                                THEN (5 * Sec) \div 2 - since ELSE 0)
                  /\ c.post = (IF age >= 60 * Sec
                               THEN [c.pre EXCEPT !.requests_this_window = 0,
                                                  !.window_start = c.t]
                               ELSE c.pre)

\* a code-search session in which a call slept for the quota, one for the
\* full window and one for the spacing
C11_Witness ==
    /\ ps.pc = "waited" /\ ps.class = "code_search"
    /\ ps.last.called
    /\ ps.last.pre.remaining > 3
    /\ ps.last.pre.requests_this_window >= 8
    /\ ps.last.t - ps.last.pre.window_start < 60 * Sec
    /\ ps.last.slept > 30 * Sec

\* C12: under sequential use the number of requests recorded in the current
\* window never exceeds the ceiling of the class (search 28, code search 8).
C12_WindowCountWithinCeiling ==
    (ps.pc # "idle" /\ ps.class \in {"search", "code_search"})
    => planner[ps.class].requests_this_window <= Ceiling(ps.class)

\* a TTL-checked read has just returned
JustRead == cres.op = "get"

\* the read was for an identity written before
ReadWritten == JustRead /\ cres.id \in DOMAIN cres.last

\* C13: in each of the four tables, a TTL-checked get at time t of an entry
\* last written at time T with ttl_hours = H finds it if t - T <= H * 3600
\* seconds and reports not-found if t - T > H * 3600 seconds.
C13_TtlBoundary ==
    ReadWritten =>
       LET w == cres.last[cres.id]
       IN cres.found <=> (cres.t - w.t <= w.ttl_hours * 3600 * Sec)

\* a read exactly one hour after a write with ttl_hours = 1 finds the entry
C13_Witness ==
    /\ ReadWritten
    /\ cres.last[cres.id].ttl_hours = 1
    /\ cres.t - cres.last[cres.id].t = 3600 * Sec
    /\ cres.found

\* a read one hour and a second after that write reports not-found
C13_WitnessExpired ==
    /\ ReadWritten
    /\ cres.last[cres.id].ttl_hours = 1
    /\ cres.t - cres.last[cres.id].t = 3601 * Sec
    /\ ~cres.found

\* C14: in every table a get within the TTL of the last write for an identity
\* returns exactly the value of that write (omitted fields at their defaults),
\* and the TTL counts from the last write.
C14_LastWriteWins ==
    ReadWritten =>
       LET w == cres.last[cres.id]
       IN (cres.t - w.t <= w.ttl_hours * 3600 * Sec)
          => (cres.found /\ cres.value = w.value)

\* an entry rewritten after time has passed is read back within the TTL of the
\* second write
C14_Witness ==
    /\ ReadWritten
    /\ cres.last[cres.id].nth >= 2
    /\ cres.last[cres.id].t > StartTime
    /\ cres.found
    /\ cres.value = cres.last[cres.id].value

\* C15: embeddings cached for one repository under two model names are both
\* retained: every embedding written is still in the table under its model.
C15_EmbeddingsKeyedByModel ==
    (cres.op # "none" /\ cres.ns = "embeddings") =>
       \A k \in DOMAIN cres.bymodel :
          /\ k[1] \in DOMAIN cache.embeddings
          /\ cache.embeddings[k[1]].embedding_model = k[2]
          /\ cache.embeddings[k[1]].embedding = cres.bymodel[k].value

\* build_queries has returned
QueriesDone == pure.fn = "build_queries" /\ pure.pc = "done"

\* the topics that are not blank once stripped, in input order
NonBlank(topics) == SelectSeq(topics, LAMBDA x : Stripped(x) # <<>>)

\* C16 (as claimed): the output of build_queries has the length of its input.
C16_OneQueryPerTopic ==
    QueriesDone => Len(pure.out) = Len(pure.topics)

\* C16 (amended): build_queries emits one query per topic that is not None
\* and not blank after stripping, in input order, and none for the others.
C16_OneQueryPerNonBlankTopic ==
    QueriesDone =>
       LET nb == NonBlank(pure.topics)
       IN /\ Len(pure.out) = Len(nb)
          /\ \A i \in 1..Len(nb) :
                pure.out[i] = Query(Stripped(nb[i]), pure.explore_longtail, pure.max_stars)

\* a list with a blank topic before a phrase has been turned into queries
C16_Witness ==
    /\ QueriesDone
    /\ Len(pure.topics) = 2
    /\ pure.topics[1] = [is_none |-> FALSE, s |-> <<" ">>]
    /\ pure.topics[2] = [is_none |-> FALSE, s |-> <<"mamba", " ", "rust">>]

\* novelty_score has returned
NoveltyDone == pure.fn = "novelty_score" /\ pure.pc = "done"

\* C17: the novelty score lies in [0, 1], and the score of a fork is the
\* score of the same repository as a non-fork minus 0.2, floored at 0.
C17_NoveltyRangeAndForkPenalty ==
    NoveltyDone =>
       /\ 0 <= pure.out /\ pure.out <= 100 * 1000
       /\ pure.repo.fork => pure.out = Max(0, pure.unforked - 20 * 1000)
       /\ ~pure.repo.fork => pure.out = pure.unforked

\* a fork whose unforked score is below 0.2 scores 0
C17_Witness ==
    /\ NoveltyDone
    /\ pure.repo.fork
    /\ pure.unforked > 0 /\ pure.unforked < 20 * 1000
    /\ pure.out = 0

\* a fork whose unforked score is above 0.2 loses exactly 0.2
C17_WitnessAbove ==
    /\ NoveltyDone
    /\ pure.repo.fork
    /\ pure.unforked > 90 * 1000
    /\ pure.out = pure.unforked - 20 * 1000

\* cosine has returned
CosineDone == pure.fn = "cosine" /\ pure.pc = "done"

\* every component is zero
ZeroNorm(v) == \A i \in 1..Len(v) : v[i] = 0

\* C18: cosine returns 0 when a vector is empty, when the lengths differ or
\* when a vector has zero norm.
C18_CosineDegenerateIsZero ==
    CosineDone =>
       ((\/ pure.a = <<>> \/ pure.b = <<>>
         \/ Len(pure.a) # Len(pure.b)
         \/ ZeroNorm(pure.a) \/ ZeroNorm(pure.b))
        => pure.out = 0)

\* vectors of different lengths, neither of them zero, whose common prefix is
\* not orthogonal
C18_Witness ==
    /\ CosineDone
    /\ pure.a = <<1>> /\ pure.b = <<3, 4>>
    /\ pure.out = 0

\* a zero vector against a vector of the same length
C18_WitnessZeroNorm ==
    /\ CosineDone
    /\ pure.a = <<0, 0>> /\ pure.b = <<3, 4>>
    /\ pure.out = 0

\* extract_concepts has returned
ConceptsDone == pure.fn = "extract_concepts" /\ pure.pc = "done"

\* the tokens of the text: its words in lower case without punctuation, stop
\* words and numbers left out
TextTokens ==
    LET norm == [i \in DOMAIN pure.text |->
                   IF pure.text[i] = "Rust," THEN "rust" ELSE pure.text[i]]
    IN SelectSeq(norm, LAMBDA w : w # "the" /\ w # "42")

\* the positions where term starts in the tokens
Occurrences(term, tokens) ==
    {i \in 1..(Len(tokens) - Len(term) + 1) :
        \A k \in 1..Len(term) : tokens[i + k - 1] = term[k]}

\* C19: extract_concepts returns at most topk terms, each a token or a pair
\* of adjacent tokens (stop words and numbers are no tokens) that occurs at
\* least twice in the text; it returns nothing if no token occurs twice.
C19_ConceptsOccurTwice ==
    ConceptsDone =>
       /\ Len(pure.out) <= pure.topk
       /\ \A i \in DOMAIN pure.out :
             /\ Len(pure.out[i].p) \in {1, 2}
             /\ Cardinality(Occurrences(pure.out[i].p, TextTokens)) >= 2
       /\ (\A i, j \in DOMAIN TextTokens : TextTokens[i] = TextTokens[j] => i = j)
          => pure.out = <<>>

\* a text with a repeated pair and repeated words of which topk = 1 keeps one
C19_Witness ==
    /\ ConceptsDone
    /\ pure.topk = 1
    /\ Len(pure.out) = 1
    /\ Len(pure.out[1].p) = 2
    /\ Cardinality({t \in Range(TextTokens) :
                      Cardinality(Occurrences(<<t>>, TextTokens)) >= 2}) >= 2

\* a text of three different tokens yields nothing
C19_WitnessUnique ==
    /\ ConceptsDone
    /\ pure.topk = 8
    /\ Len(TextTokens) >= 3
    /\ \A i, j \in DOMAIN TextTokens : TextTokens[i] = TextTokens[j] => i = j
    /\ pure.out = <<>>

\* the run has ended with a configuration error
ConfigError == err \in {"Missing token", "OPENAI_API_KEY not set"}

\* a search request or a probe request has been sent for this run
RequestSent == qi > 1 \/ idx > 1

\* C20: a run that ends with a configuration error (no API token, or no
\* credentials for the embedding provider requested) has sent no request.
C20_ConfigErrorBeforeNetwork == ConfigError => ~RequestSent

\* the repositories marked processed in the cache
Processed == DOMAIN cache.processed_repos

\* C21: in a run started with exclude_processed, no repository marked
\* processed at the start of the run is probed or selected.
C21_ProcessedExcluded ==
    params.exclude_processed =>
       /\ \A i \in 1..Min(idx - 1, nProbe) : candidates[i].full_name \notin Processed
       /\ \A k \in 1..Len(sources) : sources[k] \notin Processed

\* a read of an identity not written since clear_all returned
ReadAfterClear ==
    /\ cres.op \in {"get", "is_processed"}
    /\ cres.cleared
    /\ cres.id \notin DOMAIN cres.last

\* C22: after clear_all, get_repo, get_readme, get_health_metrics and
\* get_embedding report not-found and is_processed reports false for every
\* identity, whatever was written before.
C22_ClearAllClearsAll == ReadAfterClear => ~cres.found

\* the process of the global instances is running
InSingle == ps.pc \in {"single", "got"}

\* the latest earlier request of the class of request k, or 0
PrevOfClass(k) ==
    LET earlier == {j \in 1..(k - 1) : ps.log[j].class = ps.log[k].class}
    IN IF earlier = {} THEN 0 ELSE CHOOSE j \in earlier : \A l \in earlier : l <= j

\* C23: every call of get_search_planner returns the instance the first call
\* returned, and so for get_repo_cache; the state a gh_get call consults for
\* its class is the state the previous gh_get call of that class recorded.
C23_SingleInstances ==
    InSingle =>
       /\ \A i \in 1..Len(ps.got) : ps.got[i] = ps.got[1]
       /\ \A i \in 1..Len(ps.gotc) : ps.gotc[i] = ps.gotc[1]
       /\ \A k \in 1..Len(ps.log) :
             PrevOfClass(k) # 0 => ps.log[k].consulted = ps.log[PrevOfClass(k)].recorded

\* two gh_get calls of one class, each with its own call of get_search_planner,
\* and two calls of get_repo_cache
C23_Witness ==
    /\ InSingle
    /\ Len(ps.got) >= 2 /\ Len(ps.gotc) >= 2
    /\ Len(ps.log) = 2
    /\ ps.log[1].class = ps.log[2].class
    /\ ps.log[2].consulted.requests_this_window = 1

\* a gh_get call on a URL is in progress or over
InUrl == "url" \in DOMAIN gh

\* the class the URL of the call belongs to
UrlClass ==
    IF Contains(gh.url, <<"/search", "/repositories">>) THEN "search"
    ELSE IF Contains(gh.url, <<"/search", "/code">>) THEN "code_search"
    ELSE "rest"

\* wait_if_needed for the class of the URL, and nothing else, has just run
WaitedForClass ==
    /\ gh.pc = "wait"
    /\ planner' = [planner EXCEPT ![UrlClass] =
                      wait_if_needed(planner[UrlClass], RpmLimit(UrlClass), now).state]
    /\ now' = now + wait_if_needed(planner[UrlClass], RpmLimit(UrlClass), now).slept
    /\ sent' = sent

\* the request was issued right after the wait and its response recorded
RecordedForClass ==
    /\ gh.pc = "request"
    /\ Len(sent') = Len(sent) + 1
    /\ sent'[Len(sent')].at = now /\ sent'[Len(sent')].done = now'
    /\ gh'.pc = "handle" /\ gh'.r = sent'[Len(sent')].resp
    /\ planner' = [planner EXCEPT ![UrlClass] =
                      record_request(planner[UrlClass], now', sent'[Len(sent')].resp)]

\* C24: in gh_get with the planner enabled every step that reaches the request
\* is wait_if_needed for the class of the URL, every request is issued from
\* there and its response is recorded at once by record_request for that class
\* with the headers of that response, once per attempt; the planner changes
\* in no other step, and a request is issued only after the previous one
\* completed.
C24_WaitRequestRecord ==
    /\ [][InUrl =>
             /\ (gh'.pc = "request" /\ gh.pc # "request") => WaitedForClass
             /\ sent' # sent => RecordedForClass
             /\ planner' # planner => (WaitedForClass \/ RecordedForClass)]_vars
    /\ [](InUrl =>
             /\ \A k \in 1..(Len(sent) - 1) : sent[k].done <= sent[k + 1].at
             /\ Len(sent) = gh.attempt + (IF gh.pc \in {"handle", "returned"} THEN 1 ELSE 0)
                               + (IF gh.pc = "raised" /\ gh.error # "RequestException"
                                     /\ gh.error # "RequestFailed" THEN 1 ELSE 0))

\* a code search answered on its third attempt, after two rate-limit
\* responses, left three requests in the window of that class
C24_Witness ==
    /\ InUrl
    /\ gh.url = <<"/proxy", "/search", "/code", "x">>
    /\ gh.pc = "returned" /\ Len(sent) = 3
    /\ planner.code_search.last_request_time = sent[3].done
    /\ planner.rest = RateLimitState

\* a greedy iteration has just scanned the pool iterLog.div
Scanned == pc \in {"greedy", "finish"} /\ iterLog.div # <<>>
ScannedScore(i) == candidates[iterLog.div[i].c].score
\* the first position of the scanned pool that holds the maximal score
FirstMax ==
    CHOOSE i \in 1..Len(iterLog.div) :
       /\ \A j \in 1..Len(iterLog.div) : ScannedScore(j) <= ScannedScore(i)
       /\ \A j \in 1..(i - 1) : ScannedScore(j) < ScannedScore(i)
\* several candidates of the scanned pool share the maximal score
Tied ==
    \E j \in 1..Len(iterLog.div) : j # FirstMax /\ ScannedScore(j) = ScannedScore(FirstMax)
AggPos(i) == CHOOSE p \in 1..Len(agg) : agg[p].full_name = candidates[i].full_name

\* C25: every greedy iteration picks the first candidate, in pool order, of
\* those with the maximal combined score; the pool lists the probed candidates
\* by descending novelty, equal novelty in the order of aggregation.
C25_TieFirstInPoolOrder ==
    Scanned =>
       /\ Tied => /\ Len(picks) = Len(iterLog.sel) + 1
                  /\ picks[Len(picks)] = iterLog.div[FirstMax].c
       /\ \A i, j \in 1..Len(iterLog.div) : i < j => iterLog.div[i].c < iterLog.div[j].c
       /\ \A i, j \in 1..nProbe :
             i < j => \/ candidates[i].novelty_score > candidates[j].novelty_score
                      \/ /\ candidates[i].novelty_score = candidates[j].novelty_score
                         /\ AggPos(i) < AggPos(j)

ShardDone == pure.fn = "shard_query_by_time" /\ pure.pc = "done"

\* C26: shard_query_by_time returns at least one query; each is the base
\* query with a range start <= end inside [today - days, today]; the ranges
\* cover every day of that window; and when 50 * days <= max_results_per_shard
\* the one query returned spans the whole window.
C26_ShardsCoverWindow ==
    ShardDone =>
       LET first == pure.today - pure.days
           last == pure.today
       IN /\ Len(pure.out) >= 1
          /\ \A k \in 1..Len(pure.out) :
                /\ pure.out[k].base = pure.base_query
                /\ pure.out[k].start <= pure.out[k].end
                /\ first <= pure.out[k].start /\ pure.out[k].end <= last
          /\ \A d \in first..last :
                \E k \in 1..Len(pure.out) : pure.out[k].start <= d /\ d <= pure.out[k].end
          /\ EstimatedResultsPerDay * pure.days <= pure.max_results_per_shard
                => pure.out = <<[base |-> pure.base_query, start |-> first, end |-> last]>>

\* the repositories the searches returned that pass the license filter
Aggregated == {returned[i].full_name : i \in {j \in 1..Len(returned) : Passes(j)}}

\* C27: the probed candidates are pairwise distinct and number
\* min(probe_limit, number of aggregated candidates); the sources returned are
\* pairwise distinct, all probed, at most 6, and at most 3 on the fallback.
C27_SourcesDistinctProbed ==
    /\ pc \in {"probe", "greedy", "finish", "done"} =>
          /\ nProbe = Min(params.probe_limit, Cardinality(Aggregated))
          /\ \A i, j \in 1..nProbe : NameOf(i) = NameOf(j) => i = j
    /\ pc = "done" =>
          /\ \A k, l \in 1..Len(sources) : sources[k] = sources[l] => k = l
          /\ \A k \in 1..Len(sources) : \E i \in 1..nProbe : NameOf(i) = sources[k]
          /\ Len(sources) <= TargetCount
          /\ Len(picks) < FallbackMin => Len(sources) <= FallbackTake

\* a run whose probe limit cut the aggregate of two queries that returned one
\* repository twice, and which returned six sources
C27_Witness ==
    /\ pc = "done"
    /\ Len(returned) > Cardinality(Aggregated)
    /\ Cardinality(Aggregated) > params.probe_limit
    /\ Len(sources) = TargetCount

\* a run on a cut aggregate that took the fallback
C27_WitnessFallback ==
    /\ pc = "done"
    /\ Cardinality(Aggregated) > params.probe_limit
    /\ Len(picks) < FallbackMin /\ Len(sources) = FallbackTake

LicenseOfName(n) == candidates[CHOOSE i \in 1..Len(candidates) : NameOf(i) = n].license

\* C28: when the allowed-license set is not empty, every candidate of the
\* aggregate, every probed candidate and every source returned, by the greedy
\* pass or by the fallback, has a license of the allowed set; a repository
\* without a license is none of them.
C28_OnlyAllowedLicenses ==
    params.licenses # {} =>
       /\ \A p \in 1..Len(agg) :
             agg[p].license \in params.licenses /\ agg[p].license # ""
       /\ pc \in {"probe", "greedy", "finish", "done"} =>
             \A i \in 1..nProbe :
                candidates[i].license \in params.licenses /\ candidates[i].license # ""
       /\ pc = "done" =>
             \A k \in 1..Len(sources) :
                /\ LicenseOfName(sources[k]) \in params.licenses
                /\ LicenseOfName(sources[k]) # ""

\* the fallback returned sources while the searches had returned a repository
\* without a license and one under a license that is not allowed
C28_Witness ==
    /\ pc = "done"
    /\ params.licenses # {}
    /\ \E i, j \in 1..Len(returned) :
          /\ returned[i].license = ""
          /\ returned[j].license # "" /\ returned[j].license \notin params.licenses
    /\ Len(picks) < FallbackMin
    /\ sources # <<>>

\* the greedy pass returned its picks under the same conditions
C28_WitnessGreedy ==
    /\ pc = "done"
    /\ params.licenses # {}
    /\ \E i \in 1..Len(returned) : returned[i].license = ""
    /\ Len(picks) >= FallbackMin

\* the static score of candidate i
Static(i) ==
    params.weights.novelty * candidates[i].novelty_score
    + params.weights.health * candidates[i].health_score
    + params.weights.relevance * candidates[i].relevance
    + params.weights.author * candidates[i].author_rep
\* i comes before j in the stable descending sort of the pool by static score
Before(i, j) == Static(i) > Static(j) \/ (Static(i) = Static(j) /\ i < j)
NoEmbeddings == ~params.embed_provider /\ vecs = <<>>
InPicks(i) == \E k \in 1..Len(picks) : picks[k] = i

\* C29: without embeddings and with non-negative weights every diversity
\* bonus of every greedy iteration is 1.0, and the candidates the greedy pass
\* picked are, in order, the first min(6, |pool|) of the pool sorted stably
\* in descending order of the static score.
C29_GreedyIsStaticSort ==
    (NoEmbeddings /\ WeightsNonNegative) =>
       /\ \A i \in 1..Len(iterLog.div) : iterLog.div[i].bonus = One
       /\ pc = "done" =>
             /\ Len(picks) = Min(TargetCount, Cardinality(Surviving))
             /\ \A k \in 1..Len(picks) : picks[k] \in Surviving
             /\ \A k, l \in 1..Len(picks) : k < l => Before(picks[k], picks[l])
             /\ \A i \in Surviving :
                   ~InPicks(i) => \A k \in 1..Len(picks) : Before(picks[k], i)

\* seven candidates survived, two of the six picked tie on the static score
\* and the pick order differs from the pool order
C29_Witness ==
    /\ NoEmbeddings /\ WeightsNonNegative
    /\ pc = "done"
    /\ Cardinality(Surviving) > TargetCount
    /\ \E k \in 1..(Len(picks) - 1) :
          /\ Static(picks[k]) = Static(picks[k + 1])
          /\ Static(picks[k]) > 0
    /\ \E k \in 1..(Len(picks) - 1) : picks[k] > picks[k + 1]

\* the last wait_if_needed call found the state of its class without a
\* recorded quota
CalledUnreported ==
    /\ ps.pc \in {"ready", "waited"} /\ ps.last.called
    /\ ps.last.pre.remaining = 0 /\ ps.last.pre.reset_time = 0

====
